---- MODULE Spec2Model ----
(***************************************************************************)
(* Chart-pattern detectors of the stock pattern backend.                   *)
(*                                                                         *)
(* The state is one request's worth of data: the candle series handed to   *)
(* a detector, the detector's result, and the response of the              *)
(* /api/analyze handler.  Prices and volumes are integers; every           *)
(* relative threshold of the code is compared exactly, by cross            *)
(* multiplication, so a ratio that equals a tolerance compares equal.      *)
(* Fractions that the code returns (confidence, pattern height, price      *)
(* target) are kept as rationals [n, d] with d > 0.  A bar's date is its   *)
(* position in the series (one bar per day, ascending).                    *)
(***************************************************************************)
EXTENDS Integers, Sequences, FiniteSets, TLC

VARIABLES candles, res, opts, http, home

vars == <<candles, res, opts, http, home>>

----------------------------------------------------------------------------
(* Arithmetic used by the translations *)

Abs(x) == IF x < 0 THEN -x ELSE x

Min2(a, b) == IF a <= b THEN a ELSE b

Max2(a, b) == IF a >= b THEN a ELSE b

R(n, d) == [n |-> n, d |-> d]

\* a/b < c/d for a, c >= 0 and b, d > 0, without forming the products a*d, c*b
RECURSIVE RatLess(_, _, _, _)
RatLess(a, b, c, d) ==
    LET q1 == a \div b
        q2 == c \div d
        r1 == a % b
        r2 == c % d
    IN  IF q1 # q2 THEN q1 < q2
        ELSE IF r2 = 0 THEN FALSE
        ELSE IF r1 = 0 THEN TRUE
        ELSE RatLess(d, r2, b, r1)

RECURSIVE SumFn(_, _, _)
SumFn(f, lo, hi) == IF lo > hi THEN 0 ELSE f[lo] + SumFn(f, lo + 1, hi)

\* the indices of a set in ascending order (the order a for-loop pushes them)
RECURSIVE IndexSeq(_)
IndexSeq(S) ==
    IF S = {} THEN <<>>
    ELSE LET m == CHOOSE x \in S : \A y \in S : x <= y
         IN  <<m>> \o IndexSeq(S \ {m})

\* candles[i] for the 0-based index i of the code
At(c, i) == c[i + 1]

\* the point of bar i: the fields of the candle and index i
Pt(c, i) ==
    [index |-> i, date |-> c[i + 1].date, open |-> c[i + 1].open,
     high |-> c[i + 1].high, low |-> c[i + 1].low, close |-> c[i + 1].close,
     volume |-> c[i + 1].volume]

\* a candle object has an index property of its own once
\* analyzeFormingPattern has written one on it
HasOwnIndex(candle) == "index" \in DOMAIN candle

\* { index: i, ...candle }: every property of the candle; the spread comes
\* after index: i, so an index property of the candle's own replaces i
PtSpread(c, i) ==
    [k \in (DOMAIN c[i + 1]) \cup {"index"} |->
        IF k = "index" /\ ~HasOwnIndex(c[i + 1]) THEN i ELSE c[i + 1][k]]

\* the number that >= and <= compare for property f of a candle: <<x>> for
\* a number x, <<0>> for null, <<>> for undefined, which is NaN.  A candle
\* has no field f when the property is undefined or null, and names f in
\* its field nulls when it is null.
ToNumber(candle, f) ==
    IF f \in DOMAIN candle THEN <<candle[f]>>
    ELSE IF "nulls" \in DOMAIN candle /\ f \in candle.nulls THEN <<0>>
    ELSE <<>>

\* a[f] >= b[f] of the code: false when either side is NaN
Gte(a, b, f) ==
    LET compared(x, y) == x # <<>> /\ y # <<>> /\ x[1] >= y[1]
    IN  compared(ToNumber(a, f), ToNumber(b, f))

\* a[f] <= b[f]
Lte(a, b, f) == Gte(b, a, f)

\* a[f] > b[f]
Gt(a, b, f) ==
    LET compared(x, y) == x # <<>> /\ y # <<>> /\ x[1] > y[1]
    IN  compared(ToNumber(a, f), ToNumber(b, f))

----------------------------------------------------------------------------
(* utils/patternUtils.js *)

calculateOptimalWindowSize(dataLength) ==
    IF dataLength < 50 THEN Max2(2, (dataLength * 5) \div 100)
    ELSE IF dataLength < 200 THEN Max2(3, (dataLength * 4) \div 100)
    ELSE Max2(5, (dataLength * 3) \div 100)

\* findPeaksAndTroughs scanning every bar, the window cut at both ends
findPeaksAndTroughsClipped(c, window) ==
    LET points(idx) == [k \in 1 .. Len(idx) |-> PtSpread(c, idx[k])]
        scan(w) ==
            LET scanned == 0 .. (Len(c) - 1)
                around(i) == Max2(0, i - w) .. Min2(Len(c) - 1, i + w)
            IN  [peaks |-> points(IndexSeq({i \in scanned :
                     \A j \in around(i) : Gte(At(c, i), At(c, j), "high")})),
                 troughs |-> points(IndexSeq({i \in scanned :
                     \A j \in around(i) : Lte(At(c, i), At(c, j), "low")}))]
    IN  scan(IF window = <<>> THEN calculateOptimalWindowSize(Len(c)) ELSE window[1])

\* findPeaksAndTroughs keeping only the bars strictly above (below) every
\* other bar of the window
findPeaksAndTroughsStrict(c, window) ==
    LET points(idx) == [k \in 1 .. Len(idx) |-> PtSpread(c, idx[k])]
        scan(w) ==
            LET scanned == IF Len(c) < (w * 2) + 1 THEN {} ELSE w .. (Len(c) - w - 1)
            IN  [peaks |-> points(IndexSeq({i \in scanned :
                     \A j \in (i - w) .. (i + w) : j # i => Gt(At(c, i), At(c, j), "high")})),
                 troughs |-> points(IndexSeq({i \in scanned :
                     \A j \in (i - w) .. (i + w) : j # i => Gt(At(c, j), At(c, i), "low")}))]
    IN  scan(IF window = <<>> THEN calculateOptimalWindowSize(Len(c)) ELSE window[1])

\* window is <<>> for the default (null) and <<w>> for an explicit size
findPeaksAndTroughs(c, window) ==
    LET points(idx) == [k \in 1 .. Len(idx) |-> PtSpread(c, idx[k])]
        scan(w) ==
            LET scanned == IF Len(c) < (w * 2) + 1 THEN {} ELSE w .. (Len(c) - w - 1)
            IN  [peaks |-> points(IndexSeq({i \in scanned :
                     \A j \in (i - w) .. (i + w) : Gte(At(c, i), At(c, j), "high")})),
                 troughs |-> points(IndexSeq({i \in scanned :
                     \A j \in (i - w) .. (i + w) : Lte(At(c, i), At(c, j), "low")}))]
    IN  scan(IF window = <<>> THEN calculateOptimalWindowSize(Len(c)) ELSE window[1])

----------------------------------------------------------------------------
(* Results.  A detector returns a detected/success object, a not-detected  *)
(* object with or without a reason, or it throws.                          *)

NoResult ==
    [fn |-> "none", outcome |-> "none", hasReason |-> FALSE, reason |-> "",
     patternData |-> <<>>, firstPeakIndex |-> -1, secondPeakIndex |-> -1]

Detected(fn, pd) ==
    [fn |-> fn, outcome |-> "detected", hasReason |-> FALSE, reason |-> "",
     patternData |-> pd, firstPeakIndex |-> -1, secondPeakIndex |-> -1]

NotDetected(fn, reason) ==
    [fn |-> fn, outcome |-> "notDetected", hasReason |-> TRUE, reason |-> reason,
     patternData |-> <<>>, firstPeakIndex |-> -1, secondPeakIndex |-> -1]

NotDetectedBare(fn) ==
    [fn |-> fn, outcome |-> "notDetected", hasReason |-> FALSE, reason |-> "",
     patternData |-> <<>>, firstPeakIndex |-> -1, secondPeakIndex |-> -1]

Threw(fn, error) ==
    [fn |-> fn, outcome |-> "threw", hasReason |-> FALSE, reason |-> error,
     patternData |-> <<>>, firstPeakIndex |-> -1, secondPeakIndex |-> -1]

\* a key point { date, price }; null is a point that is absent
KeyPoint(date, price) == [isNull |-> FALSE, date |-> date, price |-> price]

NullPoint == [isNull |-> TRUE, date |-> -1, price |-> 0]

\* the outcome of a validator that returned null
Rejected == [detected |-> FALSE]

\* the first element of a sequence of validator outcomes that is an object
FirstValid(s) ==
    LET first(valid) == IF valid = <<>> THEN Rejected ELSE valid[1]
    IN  first(SelectSeq(s, LAMBDA v : v.detected))

----------------------------------------------------------------------------
(* detectors/doubleBottom.js *)

\* the pattern object of validateDoubleBottom for the peak between the
\* bottoms and the breakout bar
doubleBottomPattern(startPeak, firstBottom, secondBottom, c, peak, bk) ==
    [detected |-> TRUE,
     confidence |-> R(Min2(firstBottom.low, secondBottom.low)
                          - Abs(firstBottom.low - secondBottom.low),
                      Min2(firstBottom.low, secondBottom.low)),
     firstIndex |-> firstBottom.index,
     lastIndex |-> secondBottom.index,
     keyPoints |->
        [startPoint |-> KeyPoint(startPeak.date, startPeak.high),
         firstBottom |-> KeyPoint(firstBottom.date, firstBottom.low),
         peak |-> KeyPoint(peak.date, peak.high),
         secondBottom |-> KeyPoint(secondBottom.date, secondBottom.low),
         breakoutPoint |-> KeyPoint(At(c, bk).date, At(c, bk).close)],
     necklineLevel |-> peak.high,
     patternHeight |-> R(2 * peak.high - firstBottom.low - secondBottom.low, 2),
     priceTarget |-> R(4 * peak.high - firstBottom.low - secondBottom.low, 2)]

validateDoubleBottom(startPeak, firstBottom, secondBottom, c) ==
    LET between == (firstBottom.index + 1) .. (secondBottom.index - 1)
        \* candles.slice(secondBottom.index + 1).find(c => c.close > necklineLevel * 1.05)
        breaks(necklineLevel, k) == At(c, k).close * 100 > necklineLevel * 105
        withPeak(peak) ==
            IF (peak.high - firstBottom.low) * 100 < 10 * firstBottom.low THEN Rejected
            ELSE IF peak.high <= firstBottom.low \/ peak.high <= secondBottom.low THEN Rejected
            ELSE IF \A k \in (secondBottom.index + 1) .. (Len(c) - 1) : ~breaks(peak.high, k)
            THEN Rejected
            ELSE doubleBottomPattern(startPeak, firstBottom, secondBottom, c, peak,
                     CHOOSE k \in (secondBottom.index + 1) .. (Len(c) - 1) :
                         /\ breaks(peak.high, k)
                         /\ \A k2 \in (secondBottom.index + 1) .. (k - 1) : ~breaks(peak.high, k2))
    IN  IF secondBottom.index <= firstBottom.index + 1 THEN Rejected
        ELSE IF Abs(firstBottom.low - secondBottom.low) * 100
                    > 6 * Min2(firstBottom.low, secondBottom.low) THEN Rejected
        ELSE IF between = {} THEN Rejected
        \* reduce with a strict >: the earliest bar with the highest high
        ELSE withPeak(Pt(c, CHOOSE i \in between :
                          /\ \A j \in between : At(c, j).high <= At(c, i).high
                          /\ \A j \in between : At(c, j).high = At(c, i).high => i <= j))

\* every validator outcome of the nested loops, in the order the loops run
DoubleBottomLoops(c, peaks, troughs) ==
    LET last(s) == s[Len(s)]
        row(i, preceding) ==
            IF preceding = <<>> THEN <<>>
            ELSE [j \in 1 .. (Len(troughs) - i) |->
                     validateDoubleBottom(last(preceding), troughs[i], troughs[i + j], c)]
        rows[i \in 0 .. Len(troughs)] ==
            IF i = 0 THEN <<>>
            ELSE rows[i - 1] \o row(i, SelectSeq(peaks, LAMBDA p : p.index < troughs[i].index))
    IN  rows[Len(troughs)]

DoubleBottomCandidates(c) ==
    LET loops(pt) == DoubleBottomLoops(c, pt.peaks, pt.troughs)
    IN  loops(findPeaksAndTroughs(c, <<>>))

detectDoubleBottom(cs) ==
    IF cs.isNull \/ Len(cs.bars) < 30 THEN NotDetected("detectDoubleBottom", "Not enough data")
    ELSE LET returned(first) == IF first.detected THEN Detected("detectDoubleBottom", first)
                                ELSE NotDetectedBare("detectDoubleBottom")
             search(pt) ==
                 IF Len(pt.troughs) < 2 \/ Len(pt.peaks) < 1
                 THEN NotDetected("detectDoubleBottom", "Not enough peaks or troughs found")
                 ELSE returned(FirstValid(DoubleBottomLoops(cs.bars, pt.peaks, pt.troughs)))
         IN  search(findPeaksAndTroughs(cs.bars, <<>>))

----------------------------------------------------------------------------
(* detectors/doubleTop.js.  Relative thresholds are integers in units of  *)
(* 1/100000 (0.12 is 12000); sub-scores and the confidence are in          *)
(* hundredths.                                                             *)

\* NaN, the quotient 0/0: no comparison with it holds
NaN == R(0, 0)

\* a property that is undefined makes its true range, and with it the
\* average, NaN; one that is null counts as 0
calculateATR(c, period, endIndex) ==
    IF Len(c) < period + 1 \/ endIndex < period THEN R(0, 1)
    ELSE LET startIdx == Max2(0, endIndex - period)
             num(i, f) == ToNumber(At(c, i), f)
             undefinedAt(i) == num(i, "high") = <<>> \/ num(i, "low") = <<>>
                               \/ num(i - 1, "close") = <<>>
             trueRanges == [i \in (startIdx + 1) .. endIndex |->
                 Max2(num(i, "high")[1] - num(i, "low")[1],
                      Max2(Abs(num(i, "high")[1] - num(i - 1, "close")[1]),
                           Abs(num(i, "low")[1] - num(i - 1, "close")[1])))]
         IN  IF endIndex - startIdx < 1 THEN R(0, 1)
             ELSE IF \E i \in (startIdx + 1) .. endIndex : undefinedAt(i) THEN NaN
             ELSE R(SumFn(trueRanges, startIdx + 1, endIndex), endIndex - startIdx)

calculatePriorTrend(c, startIndex, lookbackPeriod) ==
    LET n == IF startIndex < lookbackPeriod THEN startIndex ELSE lookbackPeriod
        y == [i \in 0 .. (n - 1) |-> At(c, startIndex - n + i).close]
        sumX == SumFn([i \in 0 .. (n - 1) |-> i], 0, n - 1)
        sumY == SumFn(y, 0, n - 1)
        sumXY == SumFn([i \in 0 .. (n - 1) |-> i * y[i]], 0, n - 1)
        sumX2 == SumFn([i \in 0 .. (n - 1) |-> i * i], 0, n - 1)
        num == n * sumXY - sumX * sumY
        den == n * sumX2 - sumX * sumX
    IN  \* 0/0: the slope is NaN, neither comparison holds
        IF den = 0 THEN "downtrend"
        \* |slope * n / avgPrice| < 0.03
        ELSE IF RatLess(Abs(num) * 100, den, 3 * sumY, n * n) THEN "sideways"
        ELSE IF num > 0 THEN "uptrend"
        ELSE "downtrend"

analyzeVolumeProfile(firstPeak, secondPeak) ==
    IF firstPeak.volume = 0 \/ secondPeak.volume = 0 THEN 50
    ELSE IF 10 * secondPeak.volume < 8 * firstPeak.volume
            /\ 10 * secondPeak.volume > 4 * firstPeak.volume THEN 90
    ELSE IF secondPeak.volume < firstPeak.volume THEN 70
    ELSE IF 10 * secondPeak.volume < 12 * firstPeak.volume THEN 50
    ELSE 30

patternDetectionConfig ==
    [minCandles |-> 60, maxPeakDistance |-> 60, minPeakDistance |-> 10,
     minTroughDepth |-> 4000, maxPeakDifference |-> 12000,
     volatilityFactors |-> [highVolatility |-> 2000, lowVolatility |-> 1000,
                            peakAdjustment |-> 125, troughAdjustment |-> 200]]

\* "high", "low" or "normal": the ATR over the average peak height against
\* the two volatility thresholds of the configuration
VolatilityClass(c, firstPeak, secondPeak, config) ==
    LET atr == calculateATR(c, 14, firstPeak.index)
        sumHigh == firstPeak.high + secondPeak.high
    IN  IF 2 * atr.n * 100000 > config.volatilityFactors.highVolatility * atr.d * sumHigh
        THEN "high"
        ELSE IF 2 * atr.n * 100000 < config.volatilityFactors.lowVolatility * atr.d * sumHigh
        THEN "low"
        ELSE "normal"

\* the combinations of sub-scores (peak, trough, volume, trend, breakout)
\* whose weighted sum is an exact half of a hundredth and which the
\* double-precision sum leaves just below it, so that Math.round rounds down
FloatTieDown ==
    { <<100, 100, 70, 40, 80>>, <<100, 100, 50, 40, 100>>, <<100, 100, 50, 40, 80>>,
      <<100, 90, 70, 40, 100>>, <<100, 90, 70, 40, 80>>, <<100, 90, 50, 100, 100>>,
      <<100, 90, 50, 40, 100>>, <<100, 90, 50, 40, 80>>, <<100, 80, 90, 40, 80>>,
      <<100, 60, 90, 100, 100>>, <<100, 60, 90, 40, 100>>, <<100, 60, 90, 40, 80>>,
      <<100, 60, 30, 40, 100>>, <<90, 100, 90, 40, 80>>, <<80, 100, 90, 40, 100>>,
      <<80, 100, 90, 40, 80>>, <<80, 60, 70, 40, 100>>, <<80, 50, 70, 100, 80>>,
      <<80, 50, 70, 40, 100>>, <<80, 50, 30, 40, 80>>, <<70, 60, 90, 40, 100>>,
      <<70, 60, 70, 100, 100>>, <<70, 60, 70, 100, 80>>, <<70, 60, 70, 40, 100>>,
      <<70, 60, 70, 40, 40>>, <<70, 60, 30, 40, 100>>, <<70, 60, 30, 40, 80>>,
      <<70, 50, 50, 40, 80>>, <<70, 50, 30, 40, 100>>, <<70, 50, 30, 40, 80>>,
      <<65, 60, 50, 70, 100>>, <<65, 60, 30, 70, 100>>, <<65, 60, 30, 70, 40>>,
      <<60, 90, 70, 40, 100>>, <<60, 80, 30, 40, 80>>, <<60, 60, 50, 40, 100>>,
      <<60, 60, 50, 40, 80>>, <<60, 60, 30, 40, 100>>, <<60, 60, 30, 40, 80>>,
      <<60, 60, 30, 40, 50>>, <<60, 50, 70, 40, 80>> }

\* Math.round(overallConfidence * 100), overallConfidence in units of 1/10000
OverallConfidence(peakS, troughC, volumeC, trendC, breakoutC, isPartial) ==
    LET weighted == peakS * 30 + troughC * 20 + volumeC * 15 + trendC * 25 + breakoutC * 10
        boosted == IF isPartial /\ peakS > 70 /\ troughC > 70 /\ trendC > 70
                   THEN weighted + 500 ELSE weighted
        floored == Max2(4000, boosted)
    IN  IF floored % 100 = 50 /\ <<peakS, troughC, volumeC, trendC, breakoutC>> \in FloatTieDown
        THEN floored \div 100
        ELSE (floored + 50) \div 100

\* the valley loop with <= in place of <: the latest lowest low
valleyBetweenLatest(firstPeak, secondPeak, c) ==
    LET between == (firstPeak.index + 1) .. (secondPeak.index - 1)
    IN  CHOOSE i \in between :
            /\ \A j \in between : At(c, i).low <= At(c, j).low
            /\ \A j \in between : At(c, j).low = At(c, i).low => j <= i

\* the valley loop over the bars strictly between the peaks: a bar replaces
\* the valley only when its low is strictly lower than the lowest so far
valleyBetween(firstPeak, secondPeak, c) ==
    LET between == (firstPeak.index + 1) .. (secondPeak.index - 1)
    IN  CHOOSE i \in between :
            /\ \A j \in between : At(c, i).low <= At(c, j).low
            /\ \A j \in between : At(c, j).low = At(c, i).low => i <= j

\* a threshold of the configuration widened in a volatile market and
\* narrowed in a quiet one
volatilityAdjusted(vol, value, adjustment) ==
    IF vol = "high" THEN (value * adjustment) \div 100
    ELSE IF vol = "low" THEN (value * 100) \div adjustment
    ELSE value

\* the tiers of heightDiff against 2%, 4%, 6%, 8%, 10% and the threshold
peakSimilarityConfidence(firstPeak, secondPeak, peakSimilarityThreshold) ==
    LET within(x) == Abs(firstPeak.high - secondPeak.high) * 100000 <= x * firstPeak.high
    IN  IF within(2000) THEN 100
        ELSE IF within(4000) THEN 90
        ELSE IF within(6000) THEN 80
        ELSE IF within(8000) THEN 70
        ELSE IF within(10000) THEN 65
        ELSE IF within(peakSimilarityThreshold) THEN 60
        ELSE 0

\* the tiers of troughDecline against minTroughDepth, tier in hundredths
troughConfidence(firstPeak, valley, minTroughDepth) ==
    LET deep(tier) == (firstPeak.high - valley.low) * 100000
                          >= ((minTroughDepth * tier) \div 100) * firstPeak.high
    IN  IF deep(150) THEN 100
        ELSE IF deep(125) THEN 90
        ELSE IF deep(100) THEN 80
        ELSE IF deep(70) THEN 60
        ELSE IF deep(50) THEN 50
        ELSE 0

\* the breakout point at bar i
breakoutAt(c, i, price, isPartial) ==
    [isNull |-> FALSE, date |-> At(c, i).date, price |-> price,
     volume |-> At(c, i).volume, isPartial |-> isPartial]

\* the first close below the neckline threshold within 30 bars of the second
\* peak, else the lowest low of the next bars as a partial breakout, else null
findBreakoutPoint(secondPeak, c, necklineLevel, breakoutThreshold) ==
    LET searched == (secondPeak.index + 1) .. (Min2(Len(c), secondPeak.index + 30) - 1)
        post == (secondPeak.index + 1) .. (Min2(Len(c), secondPeak.index + 10) - 1)
        strong(k) == At(c, k).close * 100 < necklineLevel * breakoutThreshold
        confirmed(k) == breakoutAt(c, k, At(c, k).close, FALSE)
        partial(lowestIdx) ==
            IF secondPeak.index + 5 < Len(c)
               /\ (secondPeak.high - At(c, lowestIdx).low) * 100 > 3 * secondPeak.high
            THEN breakoutAt(c, lowestIdx, At(c, lowestIdx).low, TRUE)
            ELSE [isNull |-> TRUE, date |-> -1, price |-> 0, volume |-> 0, isPartial |-> FALSE]
    IN  IF \E k \in searched : strong(k)
        THEN confirmed(CHOOSE k \in searched :
                          strong(k) /\ \A k2 \in (secondPeak.index + 1) .. (k - 1) : ~strong(k2))
        ELSE partial(CHOOSE i \in post :
                        /\ \A j \in post : At(c, i).low <= At(c, j).low
                        /\ \A j \in post : At(c, j).low = At(c, i).low => i <= j)

\* volumeRatio = volume / (volSum / volCnt) over the ten bars before the
\* second peak
breakoutConfidence(breakoutPoint, secondPeak, c) ==
    LET rated(volSum, volCnt) ==
            IF breakoutPoint.isPartial THEN 40
            ELSE IF 2 * breakoutPoint.volume * volCnt > 3 * volSum THEN 100
            ELSE IF breakoutPoint.volume * volCnt > volSum THEN 80
            ELSE 50
        from(recentFrom) ==
            rated(SumFn([i \in recentFrom .. (secondPeak.index - 1) |-> At(c, i).volume],
                        recentFrom, secondPeak.index - 1),
                  secondPeak.index - recentFrom)
    IN  from(Max2(0, secondPeak.index - 10))

trendConfidence(priorTrend) ==
    IF priorTrend = "uptrend" THEN 100
    ELSE IF priorTrend = "sideways" THEN 70
    ELSE 40

\* the pattern object of validateDoubleTop
\* the pattern with its neckline taken at the first peak instead of the valley
doubleTopPatternNecklineAtPeak(startTrough, firstPeak, secondPeak, valley, breakoutPoint, priorTrend, peakSimilarityThreshold, peakS, troughC, volumeC, breakoutC) ==
    [detected |-> TRUE,
     confidence |-> R(OverallConfidence(peakS, troughC, volumeC, trendConfidence(priorTrend),
                                        breakoutC, breakoutPoint.isPartial),
                      100),
     keyPoints |->
        [startPoint |-> KeyPoint(startTrough.date, startTrough.low),
         firstPeak |-> KeyPoint(firstPeak.date, firstPeak.high),
         valley |-> KeyPoint(valley.date, valley.low),
         secondPeak |-> KeyPoint(secondPeak.date, secondPeak.high),
         breakoutPoint |-> breakoutPoint],
     necklineLevel |-> firstPeak.high,
     patternHeight |-> R(firstPeak.high + secondPeak.high - 2 * valley.low, 2),
     priceTarget |-> R(4 * valley.low - firstPeak.high - secondPeak.high, 2),
     metrics |-> [peakSimilarity |-> peakS,
                  troughQuality |-> troughC,
                  volumeProfile |-> volumeC,
                  priorTrend |-> priorTrend,
                  breakoutStrength |-> breakoutC,
                  peakSimilarityThreshold |-> peakSimilarityThreshold],
     firstPeakIndex |-> firstPeak.index,
     secondPeakIndex |-> secondPeak.index]

doubleTopPattern(startTrough, firstPeak, secondPeak, valley, breakoutPoint, priorTrend, peakSimilarityThreshold, peakS, troughC, volumeC, breakoutC) ==
    [detected |-> TRUE,
     confidence |-> R(OverallConfidence(peakS, troughC, volumeC, trendConfidence(priorTrend),
                                        breakoutC, breakoutPoint.isPartial),
                      100),
     keyPoints |->
        [startPoint |-> KeyPoint(startTrough.date, startTrough.low),
         firstPeak |-> KeyPoint(firstPeak.date, firstPeak.high),
         valley |-> KeyPoint(valley.date, valley.low),
         secondPeak |-> KeyPoint(secondPeak.date, secondPeak.high),
         breakoutPoint |-> breakoutPoint],
     necklineLevel |-> valley.low,
     patternHeight |-> R(firstPeak.high + secondPeak.high - 2 * valley.low, 2),
     priceTarget |-> R(4 * valley.low - firstPeak.high - secondPeak.high, 2),
     metrics |-> [peakSimilarity |-> peakS,
                  troughQuality |-> troughC,
                  volumeProfile |-> volumeC,
                  priorTrend |-> priorTrend,
                  breakoutStrength |-> breakoutC,
                  peakSimilarityThreshold |-> peakSimilarityThreshold],
     firstPeakIndex |-> firstPeak.index,
     secondPeakIndex |-> secondPeak.index]

validateDoubleTop(startTrough, firstPeak, secondPeak, c, config) ==
    LET scored(valley, breakoutPoint, peakSimilarityThreshold, peakS, troughC) ==
            IF peakS = 0 THEN Rejected
            ELSE IF troughC = 0 THEN Rejected
            ELSE IF breakoutPoint.isNull THEN Rejected
            ELSE doubleTopPattern(startTrough, firstPeak, secondPeak, valley, breakoutPoint,
                                  calculatePriorTrend(c, startTrough.index, 20),
                                  peakSimilarityThreshold, peakS, troughC,
                                  analyzeVolumeProfile(firstPeak, secondPeak),
                                  breakoutConfidence(breakoutPoint, secondPeak, c))
        measured(vol, valley, peakSimilarityThreshold) ==
            scored(valley,
                   findBreakoutPoint(secondPeak, c, valley.low,
                       IF vol = "high" THEN 96 ELSE IF vol = "low" THEN 99 ELSE 98),
                   peakSimilarityThreshold,
                   peakSimilarityConfidence(firstPeak, secondPeak, peakSimilarityThreshold),
                   troughConfidence(firstPeak, valley,
                       volatilityAdjusted(vol, config.minTroughDepth,
                                          config.volatilityFactors.troughAdjustment)))
        classed(vol) ==
            measured(vol, Pt(c, valleyBetween(firstPeak, secondPeak, c)),
                     volatilityAdjusted(vol, config.maxPeakDifference,
                                        config.volatilityFactors.peakAdjustment))
    IN  IF (firstPeak.index + 1) .. (secondPeak.index - 1) = {} THEN Rejected
        ELSE classed(VolatilityClass(c, firstPeak, secondPeak, config))

\* the standard deviation of the day-to-day changes of the last 30 closes,
\* classed against 2% and 1%; the changes are carried in basis points
RecentVolatility(c) ==
    LET n == Len(c)
        from == Max2(0, n - 30)
        pct == [i \in (from + 1) .. (n - 1) |->
                   ((At(c, i).close - At(c, i - 1).close) * 10000) \div At(c, i - 1).close]
        cnt == n - 1 - from
        s1 == SumFn(pct, from + 1, n - 1)
        s2 == SumFn([i \in (from + 1) .. (n - 1) |-> pct[i] * pct[i]], from + 1, n - 1)
        spread2 == cnt * s2 - s1 * s1
    IN  IF spread2 > 200 * 200 * cnt * cnt THEN "high"
        ELSE IF spread2 < 100 * 100 * cnt * cnt THEN "low"
        ELSE "normal"

adjustedConfig(c) ==
    LET v == RecentVolatility(c)
        base == patternDetectionConfig
    IN  IF v = "high"
        THEN [base EXCEPT !.maxPeakDifference = (@ * 12) \div 10,
                          !.minTroughDepth = (@ * 15) \div 10,
                          !.volatilityFactors.highVolatility = (@ * 15) \div 10]
        ELSE IF v = "low"
        THEN [base EXCEPT !.maxPeakDifference = (@ * 9) \div 10,
                          !.minTroughDepth = (@ * 8) \div 10]
        ELSE base

\* every validator outcome of the two loops over sortedPeaks, in loop order.
\* sortedPeaks is peaks: the comparator subtracts two undefined
\* significance fields, NaN, and the sort leaves the order as it is.
DoubleTopLoops(c, sortedPeaks, troughs, config) ==
    LET last(s) == s[Len(s)]
        row(i, preceding, seconds) ==
            IF preceding = <<>> THEN <<>>
            ELSE [j \in 1 .. Len(seconds) |->
                     validateDoubleTop(last(preceding), sortedPeaks[i], seconds[j], c, config)]
        rows[i \in 0 .. Len(sortedPeaks)] ==
            IF i = 0 THEN <<>>
            ELSE rows[i - 1] \o
                 row(i, SelectSeq(troughs, LAMBDA t : t.index < sortedPeaks[i].index),
                     \* p.index - firstPeak.index <= Math.min(60, candles.length / 4)
                     SelectSeq(sortedPeaks, LAMBDA p :
                         /\ p.index > sortedPeaks[i].index
                         /\ p.index - sortedPeaks[i].index <= 60
                         /\ 4 * (p.index - sortedPeaks[i].index) <= Len(c)))
    IN  rows[Len(sortedPeaks)]

DoubleTopCandidates(c) ==
    LET loops(pt) == DoubleTopLoops(c, pt.peaks, pt.troughs, adjustedConfig(c))
    IN  loops(findPeaksAndTroughs(c, <<>>))

\* Array.prototype.sort with (a, b) => b.confidence - a.confidence: stable,
\* descending; an insertion of x after every element that is not smaller
RECURSIVE SortByConfidence(_)
SortByConfidence(s) ==
    IF s = <<>> THEN <<>>
    ELSE LET rest == SortByConfidence(SubSeq(s, 1, Len(s) - 1))
             x == s[Len(s)]
             ahead == SelectSeq(rest, LAMBDA y : y.confidence.n >= x.confidence.n)
             behind == SelectSeq(rest, LAMBDA y : y.confidence.n < x.confidence.n)
         IN  ahead \o <<x>> \o behind

DoubleTopResult(v) ==
    [Detected("detectDoubleTop", v) EXCEPT !.firstPeakIndex = v.firstPeakIndex,
                                           !.secondPeakIndex = v.secondPeakIndex]

\* the first pattern above 0.85 in loop order, which the loops return as soon
\* as it is found, else the first of the patterns sorted by confidence
selectDoubleTop(validPatterns) ==
    LET first(veryHigh) ==
            IF veryHigh # <<>> THEN DoubleTopResult(veryHigh[1])
            ELSE IF validPatterns # <<>>
            THEN DoubleTopResult(SortByConfidence(validPatterns)[1])
            ELSE NotDetected("detectDoubleTop", "No valid Double Top patterns found")
    IN  first(SelectSeq(validPatterns, LAMBDA v : v.confidence.n > 85))

detectDoubleTop(cs) ==
    IF cs.isNull \/ Len(cs.bars) < 20 THEN NotDetected("detectDoubleTop", "Insufficient data")
    ELSE IF Len(cs.bars) < patternDetectionConfig.minCandles
    THEN NotDetected("detectDoubleTop", "Insufficient data for reliable pattern detection")
    ELSE LET search(pt) ==
                 IF Len(pt.peaks) < 2 \/ Len(pt.troughs) < 1
                 THEN NotDetected("detectDoubleTop", "Not enough peaks or troughs found")
                 ELSE selectDoubleTop(
                          SelectSeq(DoubleTopLoops(cs.bars, pt.peaks, pt.troughs,
                                                   adjustedConfig(cs.bars)),
                                    LAMBDA v : v.detected))
         IN  search(findPeaksAndTroughs(cs.bars, <<>>))

----------------------------------------------------------------------------
(* detectors/tripleTop.js *)

\* the index triples i < j < k of a list of n elements
Triples(n) ==
    {t \in (1 .. n) \X (1 .. n) \X (1 .. n) : t[1] < t[2] /\ t[2] < t[3]}

\* the triple of a nonempty set of triples that three nested loops over
\* i < j < k reach first
FirstTriple(S) ==
    CHOOSE t \in S : \A u \in S :
        \/ t[1] < u[1]
        \/ t[1] = u[1] /\ t[2] < u[2]
        \/ t[1] = u[1] /\ t[2] = u[2] /\ t[3] <= u[3]

\* reduce over candles.slice(from + 1, to) keeping the first bar with the lowest low
LowestBetween(c, from, to) ==
    CHOOSE i \in (from + 1) .. (to - 1) :
        /\ \A j \in (from + 1) .. (to - 1) : At(c, i).low <= At(c, j).low
        /\ \A j \in (from + 1) .. (to - 1) : At(c, j).low = At(c, i).low => i <= j

\* reduce over candles.slice(from + 1, to) keeping the first bar with the highest high
HighestBetween(c, from, to) ==
    CHOOSE i \in (from + 1) .. (to - 1) :
        /\ \A j \in (from + 1) .. (to - 1) : At(c, i).high >= At(c, j).high
        /\ \A j \in (from + 1) .. (to - 1) : At(c, j).high = At(c, i).high => i <= j

\* the pattern object of validateTripleTop
tripleTopPattern(startTrough, firstPeak, secondPeak, thirdPeak, c, firstTrough, secondTrough, necklineLevel, bk) ==
    [detected |-> TRUE,
     confidence |-> R(Min2(firstPeak.high, Min2(secondPeak.high, thirdPeak.high)),
                      Max2(firstPeak.high, Max2(secondPeak.high, thirdPeak.high))),
     keyPoints |->
        [startPoint |-> KeyPoint(startTrough.date, startTrough.low),
         firstPeak |-> KeyPoint(firstPeak.date, firstPeak.high),
         firstTrough |-> KeyPoint(firstTrough.date, firstTrough.low),
         secondPeak |-> KeyPoint(secondPeak.date, secondPeak.high),
         secondTrough |-> KeyPoint(secondTrough.date, secondTrough.low),
         thirdPeak |-> KeyPoint(thirdPeak.date, thirdPeak.high),
         breakoutPoint |-> KeyPoint(At(c, bk).date, At(c, bk).close)],
     necklineLevel |-> necklineLevel,
     patternHeight |->
         R(firstPeak.high + secondPeak.high + thirdPeak.high - 3 * necklineLevel, 3),
     priceTarget |->
         R(6 * necklineLevel - (firstPeak.high + secondPeak.high + thirdPeak.high), 3)]

validateTripleTop(startTrough, firstPeak, secondPeak, thirdPeak, c) ==
    LET after == (thirdPeak.index + 1) .. (Len(c) - 1)
        tooFar(maxPeakPrice) ==
            \E x \in {firstPeak.high, secondPeak.high, thirdPeak.high} :
                (maxPeakPrice - x) * 100 > 5 * maxPeakPrice
        necked(firstTrough, secondTrough, necklineLevel) ==
            \* necklineLevel >= avgPeakPrice
            IF 3 * necklineLevel >= firstPeak.high + secondPeak.high + thirdPeak.high
            THEN Rejected
            ELSE IF \A i \in after : ~(At(c, i).close < necklineLevel) THEN Rejected
            ELSE tripleTopPattern(startTrough, firstPeak, secondPeak, thirdPeak, c,
                     firstTrough, secondTrough, necklineLevel,
                     CHOOSE i \in after :
                         /\ At(c, i).close < necklineLevel
                         /\ \A i2 \in (thirdPeak.index + 1) .. (i - 1) :
                                ~(At(c, i2).close < necklineLevel))
        troughed(firstTrough, secondTrough) ==
            necked(firstTrough, secondTrough, Min2(firstTrough.low, secondTrough.low))
    IN  IF secondPeak.index <= firstPeak.index + 1 \/ thirdPeak.index <= secondPeak.index + 1
        THEN Rejected
        ELSE IF tooFar(Max2(firstPeak.high, Max2(secondPeak.high, thirdPeak.high)))
        THEN Rejected
        ELSE troughed(Pt(c, LowestBetween(c, firstPeak.index, secondPeak.index)),
                      Pt(c, LowestBetween(c, secondPeak.index, thirdPeak.index)))

\* the peak triples the three nested loops validate: those whose first
\* peak has a trough before it
TripleTopCandidates(peaks, troughs) ==
    {t \in Triples(Len(peaks)) :
        \E k \in 1 .. Len(troughs) : troughs[k].index < peaks[t[1]].index}

\* the validator's outcome for a candidate triple
TripleTopOutcome(c, peaks, troughs, t) ==
    LET validated(precedingTroughs) ==
            validateTripleTop(precedingTroughs[Len(precedingTroughs)],
                              peaks[t[1]], peaks[t[2]], peaks[t[3]], c)
    IN  validated(SelectSeq(troughs, LAMBDA x : x.index < peaks[t[1]].index))

TripleTopValid(c, peaks, troughs) ==
    {t \in TripleTopCandidates(peaks, troughs) : TripleTopOutcome(c, peaks, troughs, t).detected}

detectTripleTop(cs) ==
    IF cs.isNull \/ Len(cs.bars) < 50 THEN NotDetected("detectTripleTop", "Not enough data")
    ELSE LET search(peaks, troughs) ==
                 LET returned(valid) ==
                         \* the first candidate that validates is returned
                         IF valid # {}
                         THEN Detected("detectTripleTop",
                                       TripleTopOutcome(cs.bars, peaks, troughs, FirstTriple(valid)))
                         ELSE NotDetectedBare("detectTripleTop")
                 IN  IF Len(peaks) < 3
                     THEN NotDetected("detectTripleTop", "Not enough peaks found")
                     ELSE returned(TripleTopValid(cs.bars, peaks, troughs))
             found(pt) == search(pt.peaks, pt.troughs)
         IN  found(findPeaksAndTroughs(cs.bars, <<>>))

----------------------------------------------------------------------------
(* detectors/tripleBottom.js.  The caller's options are a record with the  *)
(* defaults filled in; tolerances are in units of 1/100000.                *)

TripleBottomDefaults ==
    [minRequiredCandles |-> 50, minTroughSpacing |-> 2, bottomPriceTolerance |-> 8000,
     requireBreakout |-> TRUE, windowSize |-> <<>>]

\* findSignificantPeaks / findSignificantTroughs of tripleBottom.js: retry
\* with max(3, floor(2% of the length)), then with 2, until at least
\* `need` points are found
SignificantWithRetry(c, initialWindow, field, need) ==
    LET retried(initial, smaller, minimal) ==
            IF Len(initial) >= need THEN initial
            ELSE IF Len(smaller) >= need THEN smaller
            ELSE IF Len(minimal) >= need THEN minimal
            ELSE <<>>
    IN  retried(findPeaksAndTroughs(c, initialWindow)[field],
                findPeaksAndTroughs(c, <<Max2(3, (Len(c) * 2) \div 100)>>)[field],
                findPeaksAndTroughs(c, <<2>>)[field])

validateTroughSpacing(firstBottom, secondBottom, thirdBottom, minDistance) ==
    /\ secondBottom.index >= firstBottom.index + minDistance
    /\ thirdBottom.index >= secondBottom.index + minDistance

validateBottomSimilarity(firstBottom, secondBottom, thirdBottom, tolerance) ==
    LET bottomPrices == {firstBottom.low, secondBottom.low, thirdBottom.low}
        compared(minBottomPrice, maxBottomPrice) ==
            [isValid |-> \A x \in bottomPrices :
                            (x - minBottomPrice) * 100000 <= tolerance * minBottomPrice,
             maxDifference |-> R(maxBottomPrice - minBottomPrice, minBottomPrice),
             sumBottoms |-> firstBottom.low + secondBottom.low + thirdBottom.low]
    IN  compared(Min2(firstBottom.low, Min2(secondBottom.low, thirdBottom.low)),
                 Max2(firstBottom.low, Max2(secondBottom.low, thirdBottom.low)))

\* the pattern object with the price target projected below the neckline
tripleBottomPatternTargetBelow(startPeak, firstBottom, secondBottom, thirdBottom, c, similarityResult, firstPeak, secondPeak, necklineLevel, bk) ==
    [detected |-> TRUE,
     threw |-> FALSE,
     confidence |-> R(similarityResult.maxDifference.d - similarityResult.maxDifference.n,
                      similarityResult.maxDifference.d),
     keyPoints |->
        [startPoint |-> KeyPoint(startPeak.date, startPeak.high),
         firstBottom |-> KeyPoint(firstBottom.date, firstBottom.low),
         firstPeak |-> KeyPoint(firstPeak.date, firstPeak.high),
         secondBottom |-> KeyPoint(secondBottom.date, secondBottom.low),
         secondPeak |-> KeyPoint(secondPeak.date, secondPeak.high),
         thirdBottom |-> KeyPoint(thirdBottom.date, thirdBottom.low),
         breakoutPoint |-> KeyPoint(At(c, bk).date, At(c, bk).close)],
     necklineLevel |-> necklineLevel,
     patternHeight |-> R(3 * necklineLevel - similarityResult.sumBottoms, 3),
     priceTarget |-> R(similarityResult.sumBottoms, 3)]

\* the pattern object of validateTripleBottom
tripleBottomPattern(startPeak, firstBottom, secondBottom, thirdBottom, c, similarityResult, firstPeak, secondPeak, necklineLevel, bk) ==
    [detected |-> TRUE,
     threw |-> FALSE,
     confidence |-> R(similarityResult.maxDifference.d - similarityResult.maxDifference.n,
                      similarityResult.maxDifference.d),
     keyPoints |->
        [startPoint |-> KeyPoint(startPeak.date, startPeak.high),
         firstBottom |-> KeyPoint(firstBottom.date, firstBottom.low),
         firstPeak |-> KeyPoint(firstPeak.date, firstPeak.high),
         secondBottom |-> KeyPoint(secondBottom.date, secondBottom.low),
         secondPeak |-> KeyPoint(secondPeak.date, secondPeak.high),
         thirdBottom |-> KeyPoint(thirdBottom.date, thirdBottom.low),
         breakoutPoint |-> KeyPoint(At(c, bk).date, At(c, bk).close)],
     necklineLevel |-> necklineLevel,
     patternHeight |-> R(3 * necklineLevel - similarityResult.sumBottoms, 3),
     priceTarget |-> R(6 * necklineLevel - similarityResult.sumBottoms, 3)]

validateTripleBottom(startPeak, firstBottom, secondBottom, thirdBottom, c, options) ==
    LET after == (thirdBottom.index + 1) .. (Len(c) - 1)
        necked(similarityResult, firstPeak, secondPeak, necklineLevel) ==
            \* validateNeckline: necklineLevel > avgBottomPrice
            IF ~(3 * necklineLevel > similarityResult.sumBottoms) THEN Rejected
            ELSE IF \A i \in after : ~(At(c, i).close > necklineLevel)
            THEN IF options.requireBreakout THEN Rejected
                 \* calculatePatternMetrics reads breakoutPoint.date of a null breakoutPoint
                 ELSE [detected |-> FALSE, threw |-> TRUE]
            ELSE tripleBottomPattern(startPeak, firstBottom, secondBottom, thirdBottom, c,
                     similarityResult, firstPeak, secondPeak, necklineLevel,
                     CHOOSE i \in after :
                         /\ At(c, i).close > necklineLevel
                         /\ \A i2 \in (thirdBottom.index + 1) .. (i - 1) :
                                ~(At(c, i2).close > necklineLevel))
        peaked(similarityResult, firstPeak, secondPeak) ==
            necked(similarityResult, firstPeak, secondPeak,
                   Max2(firstPeak.high, secondPeak.high))
        similar(similarityResult) ==
            IF ~similarityResult.isValid THEN Rejected
            ELSE IF secondBottom.index - firstBottom.index < 2
                    \/ thirdBottom.index - secondBottom.index < 2 THEN Rejected
            ELSE peaked(similarityResult,
                        Pt(c, HighestBetween(c, firstBottom.index, secondBottom.index)),
                        Pt(c, HighestBetween(c, secondBottom.index, thirdBottom.index)))
    IN  IF ~validateTroughSpacing(firstBottom, secondBottom, thirdBottom, options.minTroughSpacing)
        THEN Rejected
        ELSE similar(validateBottomSimilarity(firstBottom, secondBottom, thirdBottom,
                                              options.bottomPriceTolerance))

\* generateTroughTriplets: the trough triples whose first trough has a
\* peak before it
TripleBottomCandidates(peaks, troughs) ==
    {t \in Triples(Len(troughs)) :
        \E k \in 1 .. Len(peaks) : peaks[k].index < troughs[t[1]].index}

\* the validator's outcome for a triplet
TripleBottomOutcome(c, options, peaks, troughs, t) ==
    LET validated(precedingPeaks) ==
            validateTripleBottom(precedingPeaks[Len(precedingPeaks)],
                                 troughs[t[1]], troughs[t[2]], troughs[t[3]], c, options)
    IN  validated(SelectSeq(peaks, LAMBDA x : x.index < troughs[t[1]].index))

\* the triplets for which the validator returns an object or throws
TripleBottomValid(c, options, peaks, troughs) ==
    LET ends(outcome) == outcome.detected \/ ("threw" \in DOMAIN outcome /\ outcome.threw)
    IN  {t \in TripleBottomCandidates(peaks, troughs) :
            ends(TripleBottomOutcome(c, options, peaks, troughs, t))}

detectTripleBottom(cs, options) ==
    \* the banner logs candles.length and candles[0].date before any check
    IF cs.isNull THEN Threw("detectTripleBottom", "TypeError")
    ELSE IF Len(cs.bars) = 0 THEN Threw("detectTripleBottom", "TypeError")
    ELSE IF Len(cs.bars) < options.minRequiredCandles
    THEN NotDetected("detectTripleBottom", "Not enough data")
    ELSE LET returned(first) ==
                 IF first.threw THEN Threw("detectTripleBottom", "TypeError")
                 ELSE Detected("detectTripleBottom", first)
             search(peaks, troughs) ==
                 LET chosen(valid) ==
                         IF valid = {}
                         THEN NotDetected("detectTripleBottom", "No valid pattern found")
                         \* the first triplet that is not rejected ends the loop
                         ELSE returned(TripleBottomOutcome(cs.bars, options, peaks, troughs,
                                                           FirstTriple(valid)))
                 IN  IF Len(troughs) < 3
                     THEN NotDetected("detectTripleBottom", "Not enough troughs found")
                     ELSE IF Len(peaks) < 2
                     THEN NotDetected("detectTripleBottom", "Not enough peaks found")
                     ELSE chosen(TripleBottomValid(cs.bars, options, peaks, troughs))
         IN  search(SignificantWithRetry(cs.bars, options.windowSize, "peaks", 2),
                    SignificantWithRetry(cs.bars, options.windowSize, "troughs", 3))

----------------------------------------------------------------------------
(* detectors/inverseHeadAndShoulders.js.  shoulderDepthTolerance is in     *)
(* units of 1/100000, minConfidence and the reported confidence in         *)
(* hundredths.                                                             *)

InverseHeadAndShouldersDefaults ==
    [minDataPoints |-> 30, windowSize |-> <<>>, shoulderDepthTolerance |-> 25000,
     breakoutRequired |-> FALSE, minConfidence |-> 60]

\* Number.prototype.toFixed(2) of n / d (d > 0), in hundredths
RoundHundredths(n, d) ==
    IF n >= 0 THEN (200 * n + d) \div (2 * d)
    ELSE -((200 * (-n) + d) \div (2 * d))

\* the symmetry ratios n / d for which 0.9 * symmetryRatio is a tie of
\* toFixed(2) in exact arithmetic while the double product lies on the side
\* of zero: -9/60 * 0.9 is -0.135 and prints as -0.13, -19/60 * 0.9 is
\* -0.285 and prints as -0.28
ConfidenceTieDown == {<<-9, 60>>, <<-19, 60>>}

TowardZero(h) == IF h < 0 THEN h + 1 ELSE h - 1

\* findSignificantPeaks / findSignificantTroughs of
\* inverseHeadAndShoulders.js: one retry, kept only if it finds enough
SignificantWithOneRetry(c, initialWindow, field, need) ==
    LET retried(initial, smaller) ==
            IF Len(initial) >= need THEN initial
            ELSE IF Len(smaller) >= need THEN smaller
            ELSE initial
    IN  retried(findPeaksAndTroughs(c, <<IF initialWindow = 0
                                         THEN calculateOptimalWindowSize(Len(c))
                                         ELSE initialWindow>>)[field],
                findPeaksAndTroughs(c, <<Max2(3, (Len(c) * 2) \div 100)>>)[field])

checkHeadDominance(leftShoulder, head, rightShoulder) ==
    /\ head.low * 100 < leftShoulder.low * 102
    /\ head.low * 100 < rightShoulder.low * 102

checkShoulderSymmetry(leftShoulder, rightShoulder, tolerance) ==
    LET compared(lo, diff) ==
            [isValid |-> ~(diff * 100000 > tolerance * lo),
             shoulderDepthDiff |-> R(diff, lo),
             symmetryRatio |-> R(lo - diff, lo)]
    IN  compared(Min2(leftShoulder.low, rightShoulder.low),
                 Abs(leftShoulder.low - rightShoulder.low))

\* getNecklineValue(index) = m * index + c through the two peaks
calculateNeckline(leftPeak, rightPeak, index) ==
    R(leftPeak.high * (rightPeak.index - leftPeak.index)
          + (rightPeak.high - leftPeak.high) * (index - leftPeak.index),
      rightPeak.index - leftPeak.index)

\* the bars after the right shoulder that close above the neckline
BreakoutBars(rightShoulder, c, leftPeak, rightPeak) ==
    LET above(i, neckline) == At(c, i).close * neckline.d > neckline.n
    IN  {i \in (rightShoulder.index + 1) .. (Len(c) - 1) :
            above(i, calculateNeckline(leftPeak, rightPeak, i))}

\* confidence: symmetryRatio, times 0.9 without a breakout, toFixed(2)
inverseConfidence(sym, hasBreakout) ==
    IF hasBreakout THEN RoundHundredths(sym.n, sym.d)
    ELSE IF <<sym.n, sym.d>> \in ConfidenceTieDown
    THEN TowardZero(RoundHundredths(9 * sym.n, 10 * sym.d))
    ELSE RoundHundredths(9 * sym.n, 10 * sym.d)

\* the pattern object of validateInverseHeadAndShoulders
inverseHeadAndShouldersPattern(startPeak, leftShoulder, head, rightShoulder, leftPeak, rightPeak, sym, hasBreakout, necklineBreak, necklineAtHead, necklineAtBreakout) ==
    [detected |-> TRUE,
     confidence |-> R(inverseConfidence(sym, hasBreakout), 100),
     keyPoints |->
        [startPoint |-> KeyPoint(startPeak.date, startPeak.high),
         leftShoulder |-> KeyPoint(leftShoulder.date, leftShoulder.low),
         leftPeak |-> KeyPoint(leftPeak.date, leftPeak.high),
         head |-> KeyPoint(head.date, head.low),
         rightPeak |-> KeyPoint(rightPeak.date, rightPeak.high),
         rightShoulder |-> KeyPoint(rightShoulder.date, rightShoulder.low),
         necklineBreak |-> necklineBreak],
     completed |-> hasBreakout,
     necklineLevel |-> R(RoundHundredths(necklineAtBreakout.n, necklineAtBreakout.d), 100),
     \* patternHeight = necklineAtHead - head.low
     patternHeight |->
        R(RoundHundredths(necklineAtHead.n - head.low * necklineAtHead.d, necklineAtHead.d),
          100),
     priceTarget |->
        R(RoundHundredths(necklineAtBreakout.n + necklineAtHead.n
                              - head.low * necklineAtHead.d,
                          necklineAtBreakout.d),
          100),
     leftPeakIndex |-> leftPeak.index,
     rightPeakIndex |-> rightPeak.index]

validateInverseHeadAndShoulders(startPeak, leftShoulder, head, rightShoulder, leftPeak, rightPeak, c, options) ==
    LET built(sym, hasBreakout, bk) ==
            inverseHeadAndShouldersPattern(startPeak, leftShoulder, head, rightShoulder,
                leftPeak, rightPeak, sym, hasBreakout,
                IF hasBreakout THEN KeyPoint(At(c, bk).date, At(c, bk).close) ELSE NullPoint,
                calculateNeckline(leftPeak, rightPeak, head.index),
                calculateNeckline(leftPeak, rightPeak, IF hasBreakout THEN bk ELSE Len(c) - 1))
        confirmed(sym, after) ==
            IF options.breakoutRequired /\ after = {} THEN Rejected
            \* symmetryRatio < minConfidence
            ELSE IF sym.n * 100 < options.minConfidence * sym.d THEN Rejected
            ELSE built(sym, after # {}, CHOOSE i \in after : \A i2 \in after : i <= i2)
        symmetric(symmetryResult) ==
            IF ~symmetryResult.isValid THEN Rejected
            ELSE confirmed(symmetryResult.symmetryRatio,
                           BreakoutBars(rightShoulder, c, leftPeak, rightPeak))
    IN  IF ~checkHeadDominance(leftShoulder, head, rightShoulder) THEN Rejected
        ELSE symmetric(checkShoulderSymmetry(leftShoulder, rightShoulder,
                                             options.shoulderDepthTolerance))

\* the validator outcomes of the consecutive trough triplets that have a
\* preceding peak and a peak on each side of the head, in order
InverseHeadAndShouldersLoops(c, options, peaks, troughs) ==
    LET last(s) == s[Len(s)]
        preceding(i) == SelectSeq(peaks, LAMBDA p : p.index < troughs[i].index)
        between(a, b) == SelectSeq(peaks, LAMBDA p : p.index > a.index /\ p.index < b.index)
        validated(i) ==
            validateInverseHeadAndShoulders(
                last(preceding(i)), troughs[i], troughs[i + 1], troughs[i + 2],
                between(troughs[i], troughs[i + 1])[1],
                between(troughs[i + 1], troughs[i + 2])[1], c, options)
        outcomes(checked) == [x \in 1 .. Len(checked) |-> validated(checked[x])]
    IN  outcomes(SelectSeq([i \in 1 .. Max2(0, Len(troughs) - 2) |-> i],
                           LAMBDA i : /\ preceding(i) # <<>>
                                      /\ between(troughs[i], troughs[i + 1]) # <<>>
                                      /\ between(troughs[i + 1], troughs[i + 2]) # <<>>))

\* const effectiveWindowSize = windowSize || Math.max(3, Math.floor(candles.length * 0.02))
\* the calendar day of a date: the dates of a series are consecutive days
\* and date 0 is 2022-11-16
CalendarDay(date) ==
    IF date <= 14 THEN [year |-> 2022, month |-> 11, day |-> date + 16]
    ELSE IF date <= 45 THEN [year |-> 2022, month |-> 12, day |-> date - 14]
    ELSE [year |-> 2023, month |-> 1, day |-> date - 45]

\* kept.sort((a, b) => a.low - b.low)[0] for the bars at the positions
\* kept: the sort is stable, so the earliest bar of the lowest low
LowestOf(c, kept) ==
    CHOOSE i \in kept :
        /\ \A j \in kept : At(c, i).low <= At(c, j).low
        /\ \A j \in kept : At(c, j).low = At(c, i).low => i <= j

\* kept.sort((a, b) => b.high - a.high)[0]: the earliest bar of the highest
\* high
HighestOf(c, kept) ==
    CHOOSE i \in kept :
        /\ \A j \in kept : At(c, i).high >= At(c, j).high
        /\ \A j \in kept : At(c, j).high = At(c, i).high => i <= j

\* the positions of the six candles analyzeFormingPattern picks by their
\* calendar dates, or the reason it gives up
FormingPoints(c) ==
    LET pos == 0 .. (Len(c) - 1)
        on(year, month) ==
            {i \in pos : CalendarDay(At(c, i).date).year = year
                         /\ CalendarDay(At(c, i).date).month = month}
        day(i) == CalendarDay(At(c, i).date).day
        lateDec == {i \in on(2022, 12) : day(i) >= 25}
        earlyDec == {i \in on(2022, 12) : day(i) <= 10}
        lateNov == {i \in on(2022, 11) : day(i) >= 20}
        earlyJan == {i \in on(2023, 1) : day(i) <= 10}
        gaveUp(reason) == [found |-> FALSE, reason |-> reason]
        picked(leftShoulder, headTrough, rightShoulder) ==
            LET between(a, b) == {i \in pos : At(c, i).date > At(c, a).date
                                              /\ At(c, i).date < At(c, b).date}
                preceding == {i \in pos : At(c, i).date < At(c, leftShoulder).date}
            IN  IF between(leftShoulder, headTrough) = {}
                THEN gaveUp("Could not identify left peak")
                ELSE IF between(headTrough, rightShoulder) = {}
                THEN gaveUp("Could not identify right peak")
                ELSE [found |-> TRUE, reason |-> "",
                      leftShoulder |-> leftShoulder, headTrough |-> headTrough,
                      rightShoulder |-> rightShoulder,
                      leftPeak |-> HighestOf(c, between(leftShoulder, headTrough)),
                      rightPeak |-> HighestOf(c, between(headTrough, rightShoulder)),
                      startPeak |-> IF preceding # {} THEN HighestOf(c, preceding) ELSE 0]
    IN  IF lateDec = {} THEN gaveUp("Could not identify pattern components")
        ELSE IF earlyDec = {} /\ lateNov = {}
        THEN gaveUp("Could not identify pattern components")
        ELSE IF earlyJan = {} THEN gaveUp("Could not identify pattern components")
        ELSE picked(LowestOf(c, IF earlyDec # {} THEN earlyDec ELSE lateNov),
                    LowestOf(c, lateDec), LowestOf(c, earlyJan))

\* the index already on a candle that has none of its own
writeIndexZero(c, i) == 0

\* if (!x.index) x.index = idx >= 0 ? idx : 0, with idx the findIndex of
\* the candle's date: the value of the index property of candle i after it
writeIndex(c, i) ==
    IF HasOwnIndex(At(c, i)) /\ At(c, i).index # 0 THEN At(c, i).index
    ELSE CHOOSE k \in 0 .. (Len(c) - 1) :
             At(c, k).date = At(c, i).date /\ \A j \in 0 .. (k - 1) : At(c, j).date # At(c, i).date

\* the candle objects of the caller's array after analyzeFormingPattern:
\* the six candles it picked carry an index property
candlesAfterForming(c) ==
    LET written(f) ==
            IF ~f.found THEN c
            ELSE LET picked == {f.leftShoulder, f.headTrough, f.rightShoulder,
                                f.leftPeak, f.rightPeak, f.startPeak}
                 IN  [i1 \in 1 .. Len(c) |->
                         IF (i1 - 1) \in picked
                         THEN [k \in (DOMAIN c[i1]) \cup {"index"} |->
                                  IF k = "index" THEN writeIndex(c, i1 - 1) ELSE c[i1][k]]
                         ELSE c[i1]]
    IN  written(FormingPoints(c))

\* the result of analyzeFormingPattern
analyzeFormingPattern(cs) ==
    \* candles.filter of null
    IF cs.isNull THEN Threw("analyzeFormingPattern", "TypeError")
    ELSE LET c == cs.bars
             formed(f) ==
                 LET leftShoulder == At(c, f.leftShoulder)
                     headTrough == At(c, f.headTrough)
                     rightShoulder == At(c, f.rightShoulder)
                     leftPeak == At(c, f.leftPeak)
                     rightPeak == At(c, f.rightPeak)
                     startPeak == At(c, f.startPeak)
                     necklineLevel == Max2(leftPeak.high, rightPeak.high)
                 IN  IF headTrough.low * 100 < leftShoulder.low * 105
                        /\ headTrough.low * 100 < rightShoulder.low * 105
                     THEN Detected("analyzeFormingPattern",
                              [confidence |-> R(70, 100), forming |-> TRUE, completed |-> FALSE,
                               keyPoints |->
                                  [startPoint |-> KeyPoint(startPeak.date, startPeak.high),
                                   leftShoulder |-> KeyPoint(leftShoulder.date, leftShoulder.low),
                                   leftPeak |-> KeyPoint(leftPeak.date, leftPeak.high),
                                   head |-> KeyPoint(headTrough.date, headTrough.low),
                                   rightPeak |-> KeyPoint(rightPeak.date, rightPeak.high),
                                   rightShoulder |-> KeyPoint(rightShoulder.date, rightShoulder.low),
                                   necklineBreak |-> NullPoint],
                               necklineLevel |-> necklineLevel,
                               priceTarget |-> 2 * necklineLevel - headTrough.low,
                               patternHeight |-> necklineLevel - headTrough.low,
                               timespan |-> rightShoulder.date - leftShoulder.date,
                               symmetryRatio |-> R(70, 100),
                               volumeProfile |-> IF headTrough.volume > leftShoulder.volume
                                                 THEN "bullish" ELSE "bearish"])
                     ELSE NotDetected("analyzeFormingPattern", "Pattern validation failed")
             analyzed(f) ==
                 IF f.found THEN formed(f) ELSE NotDetected("analyzeFormingPattern", f.reason)
         IN  analyzed(FormingPoints(c))

effectiveWindowSize(c, options) ==
    IF options.windowSize = <<>> THEN Max2(3, (Len(c) * 2) \div 100)
    ELSE options.windowSize[1]

InverseHeadAndShouldersCandidates(c, options) ==
    InverseHeadAndShouldersLoops(c, options,
        SignificantWithOneRetry(c, effectiveWindowSize(c, options), "peaks", 2),
        SignificantWithOneRetry(c, effectiveWindowSize(c, options), "troughs", 3))

detectInverseHeadAndShoulders(cs, options) ==
    \* the banner logs candles.length and candles[0].date before any check
    IF cs.isNull THEN Threw("detectInverseHeadAndShoulders", "TypeError")
    ELSE IF Len(cs.bars) = 0 THEN Threw("detectInverseHeadAndShoulders", "TypeError")
    ELSE IF Len(cs.bars) < options.minDataPoints
    THEN NotDetected("detectInverseHeadAndShoulders", "Not enough data")
    ELSE LET returned(first) ==
                 IF first.detected THEN Detected("detectInverseHeadAndShoulders", first)
                 ELSE NotDetected("detectInverseHeadAndShoulders", "No pattern confirmed")
             search(peaks, troughs) ==
                 IF Len(troughs) < 3 \/ Len(peaks) < 2
                 THEN NotDetected("detectInverseHeadAndShoulders",
                                  "Not enough troughs or peaks found")
                 ELSE returned(FirstValid(
                          InverseHeadAndShouldersLoops(cs.bars, options, peaks, troughs)))
         IN  search(SignificantWithOneRetry(cs.bars, effectiveWindowSize(cs.bars, options),
                                            "peaks", 2),
                    SignificantWithOneRetry(cs.bars, effectiveWindowSize(cs.bars, options),
                                            "troughs", 3))

----------------------------------------------------------------------------
(* detectors/headAndShoulders.js *)

\* function validateHeadAndShoulders(candles, head, leftShoulder,
\* rightShoulder, patternConfig) is declared with five parameters and is
\* called with (startTrough, leftShoulder, potentialHead, rightShoulder,
\* leftTrough, rightTrough, candles, adjustedConfig).  Its parameter
\* candles is therefore bound to the start trough, a point object, and the
\* read of candles[0].symbol raises a TypeError before any check is made.
validateHeadAndShoulders(candlesParam, head, leftShoulder, rightShoulder, patternConfig) ==
    IF "index" \in DOMAIN candlesParam
    THEN [detected |-> FALSE, threw |-> TRUE]
    ELSE [detected |-> FALSE, threw |-> FALSE]

\* one candidate of either loop: skipped without a preceding trough or
\* without a trough on each side of the head, validated otherwise
HeadAndShouldersCandidate(troughs, leftShoulder, head, rightShoulder) ==
    LET last(s) == s[Len(s)]
        tried(precedingTroughs, leftTroughs, rightTroughs) ==
            IF precedingTroughs = <<>> \/ leftTroughs = <<>> \/ rightTroughs = <<>>
            THEN [detected |-> FALSE, threw |-> FALSE]
            ELSE validateHeadAndShoulders(last(precedingTroughs), leftShoulder, head,
                                          rightShoulder, leftTroughs[1])
    IN  tried(SelectSeq(troughs, LAMBDA t : t.index < leftShoulder.index),
              SelectSeq(troughs, LAMBDA t : t.index > leftShoulder.index
                                            /\ t.index < head.index),
              SelectSeq(troughs, LAMBDA t : t.index > head.index
                                            /\ t.index < rightShoulder.index))

\* the two candidate loops of detectHeadAndShoulders: the triples around
\* each of the five highest peaks and, as nothing was collected, the
\* consecutive peak triples
HeadAndShouldersLoops(c) ==
    LET loops(peaks, troughs) ==
            LET \* sortedPeaks.slice(0, 5) of a stable descending sort by high
                rank(i) == Cardinality({j \in 1 .. Len(peaks) :
                               \/ peaks[j].high > peaks[i].high
                               \/ peaks[j].high = peaks[i].high /\ j < i})
                byHead == {t \in (1 .. Len(peaks)) \X {i \in 1 .. Len(peaks) : rank(i) < 5}
                                     \X (1 .. Len(peaks)) :
                              t[1] < t[2] /\ t[2] < t[3]}
                sequential == {<<i, i + 1, i + 2>> : i \in 1 .. Max2(0, Len(peaks) - 2)}
                throws(t) == HeadAndShouldersCandidate(troughs, peaks[t[1]], peaks[t[2]],
                                                       peaks[t[3]]).threw
            IN  IF Len(peaks) < 3 \/ Len(troughs) < 2
                THEN NotDetected("detectHeadAndShoulders", "Not enough peaks or troughs found")
                ELSE IF \E t \in byHead \cup sequential : throws(t)
                THEN Threw("detectHeadAndShoulders", "TypeError")
                ELSE NotDetected("detectHeadAndShoulders", "No pattern confirmed")
        found(pt) == loops(pt.peaks, pt.troughs)
    IN  found(findPeaksAndTroughs(c, <<10>>))

\* the candidates detectHeadAndShoulders passes to validateHeadAndShoulders,
\* each with the troughs found for it and the outcome of the call: the
\* candidates of the first loop (heads by descending high, then left and
\* right shoulders in list order) up to the first call that throws, then,
\* as no call returns a pattern, those of the second loop likewise
HeadAndShouldersValidated(c) ==
    LET first(s) == s[1]
        last(s) == s[Len(s)]
        candidates(peaks, troughs) ==
            LET before(p) == SelectSeq(troughs, LAMBDA t : t.index < p.index)
                between(p, q) == SelectSeq(troughs, LAMBDA t : t.index > p.index
                                                               /\ t.index < q.index)
                rank(i) == Cardinality({j \in 1 .. Len(peaks) :
                               \/ peaks[j].high > peaks[i].high
                               \/ peaks[j].high = peaks[i].high /\ j < i})
                tried == {u \in Triples(Len(peaks)) :
                             /\ before(peaks[u[1]]) # <<>>
                             /\ between(peaks[u[1]], peaks[u[2]]) # <<>>
                             /\ between(peaks[u[2]], peaks[u[3]]) # <<>>}
                throws(t) == HeadAndShouldersCandidate(troughs, peaks[t[1]], peaks[t[2]],
                                                       peaks[t[3]]).threw
                byHead == {t \in tried : rank(t[2]) < 5}
                sequential == {t \in tried : t[2] = t[1] + 1 /\ t[3] = t[2] + 1}
                \* t comes before u in the first loop
                earlier(t, u) ==
                    \/ rank(t[2]) < rank(u[2])
                    \/ t[2] = u[2] /\ t[1] < u[1]
                    \/ t[2] = u[2] /\ t[1] = u[1] /\ t[3] < u[3]
                reached == {t \in byHead : \A u \in byHead : earlier(u, t) => ~throws(u)}
                          \cup (IF \E u \in byHead : throws(u) THEN {}
                                ELSE {t \in sequential :
                                         \A u \in sequential : u[1] < t[1] => ~throws(u)})
            IN  {[startTrough |-> last(before(peaks[t[1]])),
                  leftShoulder |-> peaks[t[1]], head |-> peaks[t[2]],
                  rightShoulder |-> peaks[t[3]],
                  leftTrough |-> first(between(peaks[t[1]], peaks[t[2]])),
                  rightTrough |-> first(between(peaks[t[2]], peaks[t[3]])),
                  threw |-> throws(t)] : t \in reached}
        found(pt) ==
            IF Len(pt.peaks) < 3 \/ Len(pt.troughs) < 2 THEN {}
            ELSE candidates(pt.peaks, pt.troughs)
    IN  found(findPeaksAndTroughs(c, <<10>>))

\* detectHeadAndShoulders without the !candles test: candles.length of null
detectHeadAndShouldersNullUnchecked(cs) ==
    IF cs.isNull THEN Threw("detectHeadAndShoulders", "TypeError")
    ELSE IF Len(cs.bars) < 60 THEN NotDetected("detectHeadAndShoulders", "Not enough data")
    ELSE HeadAndShouldersLoops(cs.bars)

detectHeadAndShoulders(cs) ==
    IF cs.isNull \/ Len(cs.bars) < 60
    THEN NotDetected("detectHeadAndShoulders", "Not enough data")
    ELSE HeadAndShouldersLoops(cs.bars)

----------------------------------------------------------------------------
(* The double top module of src/unnamed/part_003: significant peaks with   *)
(* a window retry, peak pairs in list order, and a breakout point that     *)
(* falls back to the last candle.  Its detectDoubleTop and                 *)
(* validateDoubleTop are named Part003_... here, the names being taken by  *)
(* detectors/doubleTop.js.  Tolerances are in 1/100000.                    *)

Part003Defaults ==
    [minRequiredCandles |-> 20, minDistanceBetweenPeaks |-> 5,
     peakSimilarityTolerance |-> 10000, minValleyDepth |-> 5000,
     breakoutPercentage |-> 3000]

\* the peaks (field = "peaks", need = 2) or troughs ("troughs", 1) of the
\* initial window, else of max(3, floor(2% of the length)), else of 2
SignificantPoints(c, initialWindow, field, need) ==
    LET last(p2) == IF Len(p2) < need THEN <<>> ELSE p2
        smaller(p1) ==
            IF Len(p1) < need THEN last(findPeaksAndTroughs(c, <<2>>)[field]) ELSE p1
        first(p0) ==
            IF Len(p0) < need
            THEN smaller(findPeaksAndTroughs(c, <<Max2(3, (Len(c) * 2) \div 100)>>)[field])
            ELSE p0
    IN  first(findPeaksAndTroughs(c,
                 IF initialWindow = <<>> \/ initialWindow = <<0>>
                 THEN <<calculateOptimalWindowSize(Len(c))>>
                 ELSE initialWindow)[field])

findSignificantPeaks(c, initialWindow) == SignificantPoints(c, initialWindow, "peaks", 2)

findSignificantTroughs(c, initialWindow) == SignificantPoints(c, initialWindow, "troughs", 1)

\* the last trough before the peak, <<>> for null
findStartTrough(peak, troughs) ==
    LET last(precedingTroughs) ==
            IF precedingTroughs = <<>> THEN <<>>
            ELSE <<precedingTroughs[Len(precedingTroughs)]>>
    IN  last(SelectSeq(troughs, LAMBDA t : t.index < peak.index))

\* the pairs <<i, j>> (positions in peaks) in the order they are pushed
generatePeakPairs(peaks, troughs) ==
    {pr \in (1 .. Len(peaks)) \X (1 .. Len(peaks)) :
        pr[1] < pr[2] /\ findStartTrough(peaks[pr[1]], troughs) # <<>>}

\* heightDiff as the rational difference / max
checkPeakSimilarity(firstPeak, secondPeak, tolerance) ==
    LET ratio(diff, max) ==
            [isValid |-> diff * 100000 <= tolerance * max, difference |-> R(diff, max)]
    IN  ratio(Abs(firstPeak.high - secondPeak.high), Max2(firstPeak.high, secondPeak.high))

\* the earliest bar of the lowest low strictly between the peaks, <<>> for
\* null
findValley(firstPeak, secondPeak, c) ==
    LET between == (firstPeak.index + 1) .. (secondPeak.index - 1)
    IN  IF between = {} THEN <<>>
        ELSE <<Pt(c, CHOOSE i \in between :
                        /\ \A j \in between : At(c, i).low <= At(c, j).low
                        /\ \A j \in between : At(c, j).low = At(c, i).low => i <= j)>>

validateValleyDepth(firstPeak, valley, minDeclineRatio) ==
    (firstPeak.high - valley.low) * 100000 >= minDeclineRatio * firstPeak.high

\* detectBreakout whose fallback is the second peak's own bar
detectBreakoutAtPeak(secondPeak, level, c) ==
    LET below(k) == At(c, k).close * 100000 < level
        at(k, isConfirmed) ==
            [isNull |-> FALSE, date |-> At(c, k).date, price |-> At(c, k).close,
             volume |-> At(c, k).volume, index |-> k, isConfirmed |-> isConfirmed]
        after == (secondPeak.index + 1) .. (Len(c) - 1)
    IN  IF \E k \in after : below(k)
        THEN at(CHOOSE k \in after : below(k) /\ \A k2 \in after : k2 < k => ~below(k2), TRUE)
        ELSE at(secondPeak.index, FALSE)

\* detectBreakout with breakoutLevel = level / 100000
detectBreakout(secondPeak, level, c) ==
    LET below(k) == At(c, k).close * 100000 < level
        at(k, isConfirmed) ==
            [isNull |-> FALSE, date |-> At(c, k).date, price |-> At(c, k).close,
             volume |-> At(c, k).volume, index |-> k, isConfirmed |-> isConfirmed]
        after == (secondPeak.index + 1) .. (Len(c) - 1)
    IN  IF \E k \in after : below(k)
        THEN at(CHOOSE k \in after : below(k) /\ \A k2 \in after : k2 < k => ~below(k2), TRUE)
        ELSE at(Len(c) - 1, FALSE)

calculatePatternMetrics(startTrough, firstPeak, secondPeak, valley, breakoutPoint, peakDifference) ==
    [detected |-> TRUE,
     confidence |-> IF breakoutPoint.isConfirmed
                    THEN R(peakDifference.d - peakDifference.n, peakDifference.d)
                    ELSE R((peakDifference.d - peakDifference.n) * 7, peakDifference.d * 10),
     keyPoints |->
        [startPoint |-> KeyPoint(startTrough.date, startTrough.low),
         firstPeak |-> KeyPoint(firstPeak.date, firstPeak.high),
         valley |-> KeyPoint(valley.date, valley.low),
         secondPeak |-> KeyPoint(secondPeak.date, secondPeak.high),
         breakoutPoint |-> breakoutPoint],
     necklineLevel |-> valley.low,
     priceTarget |-> R(4 * valley.low - firstPeak.high - secondPeak.high, 2),
     patternHeight |-> R(firstPeak.high + secondPeak.high - 2 * valley.low, 2)]

Part003_validateDoubleTop(startTrough, firstPeak, secondPeak, c, options) ==
    LET measured(peakSimilarity, valley) ==
            IF ~peakSimilarity.isValid THEN Rejected
            ELSE IF valley = <<>> THEN Rejected
            ELSE IF ~validateValleyDepth(firstPeak, valley[1], options.minValleyDepth)
            THEN Rejected
            ELSE IF valley[1].low >= firstPeak.high \/ valley[1].low >= secondPeak.high
            THEN Rejected
            ELSE calculatePatternMetrics(startTrough, firstPeak, secondPeak, valley[1],
                     detectBreakout(secondPeak,
                                    valley[1].low * (100000 - options.breakoutPercentage), c),
                     peakSimilarity.difference)
    IN  IF secondPeak.index <= firstPeak.index + (options.minDistanceBetweenPeaks - 1)
        THEN Rejected
        ELSE measured(checkPeakSimilarity(firstPeak, secondPeak,
                                          options.peakSimilarityTolerance),
                      findValley(firstPeak, secondPeak, c))

\* the first valid pair in the order of generatePeakPairs
Part003_Search(c, options, peaks, troughs) ==
    LET validated(pr) ==
            Part003_validateDoubleTop(findStartTrough(peaks[pr[1]], troughs)[1],
                                      peaks[pr[1]], peaks[pr[2]], c, options)
        first(valid) ==
            IF valid = {}
            THEN NotDetected("part_003.detectDoubleTop", "No valid pattern found")
            ELSE Detected("part_003.detectDoubleTop",
                          validated(CHOOSE pr \in valid : \A u \in valid :
                                        \/ pr[1] < u[1]
                                        \/ pr[1] = u[1] /\ pr[2] <= u[2]))
    IN  IF Len(peaks) < 2 \/ Len(troughs) < 1
        THEN NotDetected("part_003.detectDoubleTop", "Not enough peaks or troughs found")
        ELSE first({pr \in generatePeakPairs(peaks, troughs) : validated(pr).detected})

\* the log lines read candles.length and candles[0].date before the test
\* of !candles
Part003_detectDoubleTop(cs, options) ==
    IF cs.isNull \/ cs.bars = <<>> THEN Threw("part_003.detectDoubleTop", "TypeError")
    ELSE IF Len(cs.bars) < options.minRequiredCandles
    THEN NotDetected("part_003.detectDoubleTop", "Not enough data")
    ELSE Part003_Search(cs.bars, options, findSignificantPeaks(cs.bars, <<>>),
                        findSignificantTroughs(cs.bars, <<>>))

----------------------------------------------------------------------------
(* Candle series.  A series is a zigzag through pivots <<bar, level, cp,   *)
(* cq, volume>>: the mid price of a pivot is level + p*cp + q*cq, bars     *)
(* between two pivots are interpolated (rounded down), every bar spans     *)
(* mid - Spread .. mid + Spread and closes at mid.  p and q move the       *)
(* levels that decide a pattern (a second peak, a third bottom, the        *)
(* depth of the tail); a series cut to its first n bars gives the short    *)
(* inputs.                                                                 *)

Spread == 1

VolBase == 1000

MaxP == 2

MaxQ == 2

Lengths == {0, 10, 25, 45, 55, 60}

Shapes ==
    << \* two peaks 12 bars apart around a three-bar valley floor, and a
       \* falling tail
       [name |-> "dtNear",
        pivots |-> << <<0, 101, 0, 0, 100>>, <<3, 101, 0, 0, 100>>, <<10, 129, 0, 0, 100>>,
                      <<15, 119, 0, 0, 100>>, <<17, 119, 0, 0, 100>>, <<22, 129, -4, 0, 60>>,
                      <<30, 110, 0, 3, 160>>, <<59, 81, 0, 3, 100>> >>],
       \* a staircase: six up over two bars, two down over two bars, so that
       \* every turn is an extreme of its window of 2 and none of its window of 3
       [name |-> "stairs",
        pivots |-> << <<0, 100, 0, 0, 100>>, <<2, 106, 0, 0, 100>>, <<4, 104, 0, 0, 100>>,
                      <<6, 110, 0, 0, 100>>, <<8, 108, 0, 0, 100>>, <<10, 114, 0, 0, 100>>,
                      <<12, 112, 0, 0, 100>>, <<14, 118, 0, 0, 100>>, <<16, 116, 0, 0, 100>>,
                      <<18, 122, 0, 0, 100>>, <<20, 120, 0, 0, 100>>, <<22, 126, 0, 0, 100>>,
                      <<24, 124, 0, 0, 100>>, <<26, 130, 0, 0, 100>>, <<28, 128, 0, 0, 100>>,
                      <<30, 134, 0, 0, 100>>, <<32, 132, 0, 0, 100>>, <<34, 138, 0, 0, 100>>,
                      <<36, 136, 0, 0, 100>>, <<38, 142, 0, 0, 100>>, <<40, 140, 0, 0, 100>>,
                      <<42, 146, 0, 0, 100>>, <<44, 144, 0, 0, 100>>, <<46, 150, 0, 0, 100>>,
                      <<48, 148, 0, 0, 100>>, <<50, 154, 0, 0, 100>>, <<52, 152, 0, 0, 100>>,
                      <<54, 158, 0, 0, 100>>, <<56, 156, 0, 0, 100>>, <<58, 162, 0, 0, 100>>,
                      <<59, 159, 0, 0, 100>> >>],
       \* two bottoms 10 bars apart, a long shelf under the peak between them
       \* and a late rise
       [name |-> "dbLate",
        pivots |-> << <<0, 120, 0, 0, 100>>, <<4, 124, 0, 0, 100>>, <<10, 100, 0, 0, 100>>,
                      <<15, 112, 0, 0, 100>>, <<20, 100, 1, 0, 100>>, <<26, 109, 0, 0, 100>>,
                      <<50, 105, 0, 0, 100>>, <<59, 126, 0, 1, 100>> >>],
       \* two peaks 6 bars apart around a valley, and a falling tail
       [name |-> "dtClose",
        pivots |-> << <<0, 101, 0, 0, 100>>, <<3, 101, 0, 0, 100>>, <<10, 129, 0, 0, 100>>,
                      <<13, 119, 0, 0, 100>>, <<16, 129, -2, 0, 60>>, <<24, 110, 0, 3, 160>>,
                      <<59, 81, 0, 3, 100>> >>],
       \* a second peak 11, 12 or 13 below a first peak of 130
       [name |-> "dtEdge",
        pivots |-> << <<0, 101, 0, 0, 100>>, <<3, 101, 0, 0, 100>>, <<10, 129, 0, 0, 100>>,
                      <<16, 105, 0, 0, 100>>, <<22, 118, -1, 0, 100>>, <<30, 95, 0, 2, 100>>,
                      <<59, 66, 0, 2, 100>> >>],
       \* rise from 100 to a peak high of 130 at bar 10, valley low 120 at
       \* bar 24, second peak high 129 at bar 39, bar 50 closes at 115
       [name |-> "c8flat",
        pivots |-> << <<0, 101, 0, 0, 100>>, <<3, 101, 0, 0, 100>>, <<10, 129, 0, 0, 100>>,
                      <<17, 125, 0, -1, 100>>, <<24, 121, 0, 0, 100>>, <<39, 128, 0, 0, 100>>,
                      <<50, 115, 0, 0, 100>>, <<59, 110, -3, 0, 100>> >>],
       \* the same with a strict rise over the first ten bars
       [name |-> "c8rise",
        pivots |-> << <<0, 99, 0, 0, 100>>, <<10, 129, 0, 0, 100>>, <<17, 125, 0, -1, 100>>,
                      <<24, 121, 0, 0, 100>>, <<39, 128, 0, 0, 100>>, <<50, 115, 0, 0, 100>>,
                      <<59, 110, -3, 0, 100>> >>],
       \* three peaks and a falling tail
       [name |-> "tt3",
        pivots |-> << <<0, 104, 0, 0, 100>>, <<4, 100, 0, 0, 100>>, <<12, 129, 0, 0, 100>>,
                      <<19, 117, 0, 0, 100>>, <<26, 129, -3, 0, 100>>, <<33, 117, 0, 2, 100>>,
                      <<40, 129, 0, 0, 100>>, <<50, 105, 0, 0, 100>>, <<59, 96, 0, 0, 100>> >>],
       \* three bottoms and a rising tail
       [name |-> "tb3",
        pivots |-> << <<0, 116, 0, 0, 100>>, <<4, 120, 0, 0, 100>>, <<12, 101, 0, 0, 100>>,
                      <<19, 113, 0, 0, 100>>, <<26, 101, 2, 0, 100>>, <<33, 113, 0, 0, 100>>,
                      <<40, 101, 0, 2, 100>>, <<50, 125, 0, 0, 100>>, <<59, 134, 0, 0, 100>> >>],
       \* two shoulders around a lower head; q lowers the tail below the neckline
       [name |-> "ihs",
        pivots |-> << <<0, 116, 0, 0, 100>>, <<4, 120, 0, 0, 100>>, <<12, 105, 0, 0, 100>>,
                      <<19, 113, 0, 0, 100>>, <<26, 95, 0, 0, 100>>, <<33, 113, 0, 0, 100>>,
                      <<40, 105, 3, 0, 100>>, <<50, 125, 0, -8, 100>>, <<59, 134, 0, -12, 100>> >>],
       \* a head one above, level with or one below two equal shoulders
       [name |-> "ihsLevel",
        pivots |-> << <<0, 116, 0, 0, 100>>, <<4, 120, 0, 0, 100>>, <<12, 105, 0, 0, 100>>,
                      <<19, 113, 0, 0, 100>>, <<26, 106, -1, 0, 100>>, <<33, 113, 0, 0, 100>>,
                      <<40, 105, 0, 0, 100>>, <<50, 125, 0, 0, 100>>, <<59, 134, 0, 0, 100>> >>],
       \* a right shoulder more than twice as high as the left one
       [name |-> "ihsSkew",
        pivots |-> << <<0, 146, 0, 0, 100>>, <<4, 150, 0, 0, 100>>, <<12, 61, 0, 0, 100>>,
                      <<19, 140, 0, 0, 100>>, <<26, 51, 0, 0, 100>>, <<33, 150, 0, 0, 100>>,
                      <<40, 131, 5, 0, 100>>, <<50, 160, 0, -10, 100>>, <<59, 169, 0, -14, 100>> >>],
       \* three peaks 11 bars apart with a trough before and between them
       [name |-> "hsTri",
        pivots |-> << <<0, 110, 0, 0, 100>>, <<10, 100, 0, 0, 100>>, <<15, 130, 0, 0, 100>>,
                      <<21, 102, 0, 0, 100>>, <<26, 128, -1, 0, 100>>, <<32, 104, 0, 0, 100>>,
                      <<37, 126, 0, 0, 100>>, <<43, 106, 0, 0, 100>>, <<59, 90, 0, -2, 100>> >>],
       \* three peaks 12 bars apart and a tail that holds above the troughs
       [name |-> "hsHold",
        pivots |-> << <<0, 110, 0, 0, 100>>, <<10, 100, 0, 0, 100>>, <<16, 124, 0, 0, 100>>,
                      <<22, 104, 0, 0, 100>>, <<28, 130, -1, 0, 100>>, <<34, 104, 0, 0, 100>>,
                      <<40, 124, 0, 0, 100>>, <<46, 112, 0, 0, 100>>, <<59, 112, 0, 1, 100>> >>],
       \* a strictly rising series
       [name |-> "rise",
        pivots |-> << <<0, 100, 0, 0, 100>>, <<59, 159, 1, 2, 100>> >>]
    >>

Level(pv, p, q) == pv[2] + p * pv[3] + q * pv[4]

\* the mid price of bar i: linear between the two pivots around it
Mid(pivots, p, q, i) ==
    LET k == CHOOSE k \in 1 .. (Len(pivots) - 1) :
                 /\ pivots[k][1] <= i /\ i <= pivots[k + 1][1]
                 /\ \A k2 \in 1 .. (k - 1) : ~(pivots[k2][1] <= i /\ i <= pivots[k2 + 1][1])
        i0 == pivots[k][1]
        i1 == pivots[k + 1][1]
        p0 == Level(pivots[k], p, q)
        p1 == Level(pivots[k + 1], p, q)
    IN  p0 + ((p1 - p0) * (i - i0)) \div (i1 - i0)

\* the volume of bar i: VolBase, scaled at a pivot by the pivot's percentage
Volume(pivots, i) ==
    IF \E k \in 1 .. Len(pivots) : pivots[k][1] = i
    THEN LET k == CHOOSE k \in 1 .. Len(pivots) : pivots[k][1] = i
         IN  (VolBase * pivots[k][5]) \div 100
    ELSE VolBase

Zigzag(pivots, p, q) ==
    [i1 \in 1 .. (pivots[Len(pivots)][1] + 1) |->
        LET mid == Mid(pivots, p, q, i1 - 1)
        IN  [date |-> i1 - 1, open |-> mid, high |-> mid + Spread, low |-> mid - Spread,
             close |-> mid, volume |-> Volume(pivots, i1 - 1)]]

NullCandles == [isNull |-> TRUE, bars |-> <<>>]

MakeCandles(shape, p, q, n) ==
    [isNull |-> FALSE, bars |-> SubSeq(Zigzag(Shapes[shape].pivots, p, q), 1, n)]

\* full-length series in every variation, cut series in the base variation
Inputs ==
    {NullCandles} \cup
    {MakeCandles(s, p, q, n) :
        <<s, p, q, n>> \in {x \in (DOMAIN Shapes) \X (0 .. MaxP) \X (0 .. MaxQ) \X Lengths :
                               x[4] = 60 \/ (x[2] = 0 /\ x[3] = 0)}}

----------------------------------------------------------------------------
(* The /api/analyze handler (index.js) and direct calls of the detectors.  *)
(* The handler gets its candles from getHistoricalData, which returns an   *)
(* array (empty when the chart has no quotes) and never null.  A point of  *)
(* a pattern line is <<date, price>>.                                      *)

NoResponse == [status |-> "none", success |-> FALSE, patternLines |-> <<>>]

\* res.json({ success: false, ... }), the generic failure response
FailureResponse == [status |-> "ok", success |-> FALSE, patternLines |-> <<>>]

\* res.status(500).json({ error }) of the catch block
ErrorResponse == [status |-> "error", success |-> FALSE, patternLines |-> <<>>]

getNextDay(date) == date + 1

\* stockData.findIndex(c => c.date === date)
findIndex(c, date) ==
    CHOOSE i \in 0 .. (Len(c) - 1) :
        At(c, i).date = date /\ \A j \in 0 .. (i - 1) : At(c, j).date # date

\* the response for a result of detectDoubleTop, detectDoubleBottom,
\* detectTripleTop or detectTripleBottom; necklineStart is the key point
\* the neckline starts at, outline the key points of the outline in order
FlatNecklineResponse(result, necklineStart, outline) ==
    IF result.outcome = "threw" THEN ErrorResponse
    ELSE IF result.outcome # "detected" THEN FailureResponse
    ELSE LET keyPoints == result.patternData.keyPoints
             necklineLevel == result.patternData.necklineLevel
             breakoutDate == keyPoints.breakoutPoint.date
         IN  [status |-> "ok", success |-> TRUE,
              patternLines |->
                 [neckline |-> << <<keyPoints[necklineStart].date, necklineLevel>>,
                                  <<breakoutDate, necklineLevel>> >>,
                  patternOutline |-> [k \in 1 .. Len(outline) |->
                                         <<keyPoints[outline[k]].date, keyPoints[outline[k]].price>>],
                  targetLine |-> << <<breakoutDate, necklineLevel>>,
                                    <<getNextDay(breakoutDate), result.patternData.priceTarget>> >>]]

\* the response for a result of detectHeadAndShoulders (left, right =
\* leftTrough, rightTrough) or detectInverseHeadAndShoulders (leftPeak,
\* rightPeak): reading necklineBreak.date of a null necklineBreak raises a
\* TypeError, which the catch block answers
SlopedNecklineResponse(c, result, left, right, outline) ==
    IF result.outcome = "threw" THEN ErrorResponse
    ELSE IF result.outcome # "detected" THEN FailureResponse
    ELSE LET keyPoints == result.patternData.keyPoints
             l == [index |-> findIndex(c, keyPoints[left].date), high |-> keyPoints[left].price]
             r == [index |-> findIndex(c, keyPoints[right].date), high |-> keyPoints[right].price]
             getNecklineValue(date) == calculateNeckline(l, r, findIndex(c, date))
             breakoutDate == keyPoints.necklineBreak.date
         IN  IF keyPoints.necklineBreak.isNull THEN ErrorResponse
             ELSE [status |-> "ok", success |-> TRUE,
                   patternLines |->
                      [neckline |-> << <<keyPoints[left].date, getNecklineValue(keyPoints[left].date)>>,
                                       <<breakoutDate, getNecklineValue(breakoutDate)>> >>,
                       patternOutline |-> [k \in 1 .. Len(outline) |->
                                              <<keyPoints[outline[k]].date,
                                                keyPoints[outline[k]].price>>],
                       targetLine |-> << <<breakoutDate, getNecklineValue(breakoutDate)>>,
                                         <<getNextDay(breakoutDate),
                                           result.patternData.priceTarget>> >>]]

\* the option sets a caller passes to detectTripleBottom
TripleBottomOptionSets ==
    {TripleBottomDefaults,
     [TripleBottomDefaults EXCEPT !.bottomPriceTolerance = 200000],
     [TripleBottomDefaults EXCEPT !.requireBreakout = FALSE]}

\* the option sets a caller passes to detectInverseHeadAndShoulders
InverseHeadAndShouldersOptionSets ==
    {InverseHeadAndShouldersDefaults,
     [InverseHeadAndShouldersDefaults EXCEPT !.shoulderDepthTolerance = 300000,
                                             !.minConfidence = -200],
     [InverseHeadAndShouldersDefaults EXCEPT !.breakoutRequired = TRUE]}

\* frontend/src/pages/Home.tsx with its Form: the state of the page once
\* mounted.  The form holds the default ticker and pattern type and the
\* dates its effect sets; analysisResult and request are <<>> when null and
\* when nothing is in flight; lastEvent is the handler that ran last.
HomeMounted ==
    [loading |-> FALSE, error |-> "", analysisResult |-> <<>>,
     formData |-> [ticker |-> "AAPL", fromDate |-> "2025-05-02", toDate |-> "2025-11-02",
                   patternType |-> "head-and-shoulders"],
     request |-> <<>>, lastEvent |-> "mount"]

NoOptions == <<>>

Init ==
    /\ candles \in Inputs
    /\ res = NoResult
    /\ opts = NoOptions
    /\ http = NoResponse
    /\ home = HomeMounted

\* GET /api/analyze?patternType=double-top
AnalyzeDoubleTop ==
    /\ res.outcome = "none" /\ ~candles.isNull
    /\ res' = detectDoubleTop(candles)
    /\ http' = FlatNecklineResponse(res', "firstPeak",
                  <<"startPoint", "firstPeak", "valley", "secondPeak", "breakoutPoint">>)
    /\ UNCHANGED <<candles, opts, home>>

\* GET /api/analyze?patternType=double-bottom
AnalyzeDoubleBottom ==
    /\ res.outcome = "none" /\ ~candles.isNull
    /\ res' = detectDoubleBottom(candles)
    /\ http' = FlatNecklineResponse(res', "firstBottom",
                  <<"startPoint", "firstBottom", "peak", "secondBottom", "breakoutPoint">>)
    /\ UNCHANGED <<candles, opts, home>>

\* GET /api/analyze?patternType=triple-top
AnalyzeTripleTop ==
    /\ res.outcome = "none" /\ ~candles.isNull
    /\ res' = detectTripleTop(candles)
    /\ http' = FlatNecklineResponse(res', "firstTrough",
                  <<"startPoint", "firstPeak", "firstTrough", "secondPeak", "secondTrough",
                    "thirdPeak", "breakoutPoint">>)
    /\ UNCHANGED <<candles, opts, home>>

\* GET /api/analyze?patternType=triple-bottom
AnalyzeTripleBottom ==
    /\ res.outcome = "none" /\ ~candles.isNull
    /\ res' = detectTripleBottom(candles, TripleBottomDefaults)
    /\ http' = FlatNecklineResponse(res', "firstPeak",
                  <<"startPoint", "firstBottom", "firstPeak", "secondBottom", "secondPeak",
                    "thirdBottom", "breakoutPoint">>)
    /\ UNCHANGED <<candles, opts, home>>

\* GET /api/analyze?patternType=head-and-shoulders
AnalyzeHeadAndShoulders ==
    /\ res.outcome = "none" /\ ~candles.isNull
    /\ res' = detectHeadAndShoulders(candles)
    /\ http' = SlopedNecklineResponse(candles.bars, res', "leftTrough", "rightTrough",
                  <<"startPoint", "leftShoulder", "leftTrough", "head", "rightTrough",
                    "rightShoulder", "necklineBreak">>)
    /\ UNCHANGED <<candles, opts, home>>

\* GET /api/analyze?patternType=inverse-head-and-shoulders
AnalyzeInverseHeadAndShoulders ==
    /\ res.outcome = "none" /\ ~candles.isNull
    /\ res' = detectInverseHeadAndShoulders(candles, InverseHeadAndShouldersDefaults)
    /\ http' = SlopedNecklineResponse(candles.bars, res', "leftPeak", "rightPeak",
                  <<"startPoint", "leftShoulder", "leftPeak", "head", "rightPeak",
                    "rightShoulder", "necklineBreak">>)
    /\ UNCHANGED <<candles, opts, home>>

\* a direct call of one of the detectors that take no options
CallDetector ==
    /\ res.outcome = "none"
    /\ \E fn \in {"detectDoubleTop", "detectDoubleBottom", "detectTripleTop",
                  "detectHeadAndShoulders"} :
          res' = CASE fn = "detectDoubleTop" -> detectDoubleTop(candles)
                   [] fn = "detectDoubleBottom" -> detectDoubleBottom(candles)
                   [] fn = "detectTripleTop" -> detectTripleTop(candles)
                   [] fn = "detectHeadAndShoulders" -> detectHeadAndShoulders(candles)
    /\ UNCHANGED <<candles, opts, http, home>>

\* a direct call detectTripleBottom(candles, options)
CallDetectTripleBottom ==
    /\ res.outcome = "none"
    /\ \E o \in TripleBottomOptionSets :
          /\ res' = detectTripleBottom(candles, o)
          /\ opts' = o
    /\ UNCHANGED <<candles, http, home>>

\* a direct call detectInverseHeadAndShoulders(candles, options)
CallDetectInverseHeadAndShoulders ==
    /\ res.outcome = "none"
    /\ \E o \in InverseHeadAndShouldersOptionSets :
          /\ res' = detectInverseHeadAndShoulders(candles, o)
          /\ opts' = o
    /\ UNCHANGED <<candles, http, home>>

\* the option sets a caller passes to the detectDoubleTop of part_003
Part003OptionSets ==
    {Part003Defaults,
     [Part003Defaults EXCEPT !.minDistanceBetweenPeaks = 1],
     [Part003Defaults EXCEPT !.breakoutPercentage = 30000]}

\* a direct call detectDoubleTop(candles, options) of part_003
CallPart003DetectDoubleTop ==
    /\ res.outcome = "none"
    /\ \E o \in Part003OptionSets :
          /\ res' = Part003_detectDoubleTop(candles, o)
          /\ opts' = o
    /\ UNCHANGED <<candles, http, home>>

\* the windows a caller passes to findPeaksAndTroughs: none, or a number
Windows == {<<>>, <<0>>, <<2>>, <<3>>, <<10>>, <<30>>}

\* a direct call findPeaksAndTroughs(candles, window); candles.length of
\* null raises a TypeError
CallFindPeaksAndTroughs ==
    /\ res.outcome = "none"
    /\ \E w \in Windows :
          /\ res' = IF candles.isNull THEN Threw("findPeaksAndTroughs", "TypeError")
                     ELSE [NoResult EXCEPT !.fn = "findPeaksAndTroughs",
                                           !.outcome = "returned",
                                           !.patternData = findPeaksAndTroughs(candles.bars, w)]
          /\ opts' = [window |-> w]
    /\ UNCHANGED <<candles, http, home>>

\* detectHeadAndShoulders, on at least 60 candles, passes one of its
\* candidates to validateHeadAndShoulders; opts holds the candidate
ValidateHeadAndShouldersCandidate ==
    /\ res.outcome = "none" /\ ~candles.isNull /\ Len(candles.bars) >= 60
    /\ \E cand \in HeadAndShouldersValidated(candles.bars) :
          /\ res' = [NoResult EXCEPT !.fn = "validateHeadAndShoulders",
                                     !.outcome = IF cand.threw THEN "threw" ELSE "rejected",
                                     !.reason = IF cand.threw THEN "TypeError" ELSE ""]
          /\ opts' = cand
    /\ UNCHANGED <<candles, http, home>>

\* detectDoubleTop between two iterations of its candidate loops: validated
\* candidates so far and the valid patterns pushed so far
DoubleTopRunning(validated, validPatterns) ==
    [NoResult EXCEPT !.fn = "detectDoubleTop", !.outcome = "running",
                     !.patternData = [validated |-> validated,
                                      validPatterns |-> validPatterns]]

\* a direct call of detectDoubleTop, followed step by step, gets past the
\* length and peak count tests and enters the candidate loops
EnterDoubleTopLoops ==
    /\ res.outcome = "none" /\ ~candles.isNull
    /\ Len(candles.bars) >= patternDetectionConfig.minCandles
    /\ Len(findPeaksAndTroughs(candles.bars, <<>>).peaks) >= 2
    /\ Len(findPeaksAndTroughs(candles.bars, <<>>).troughs) >= 1
    /\ res' = DoubleTopRunning(0, <<>>)
    /\ UNCHANGED <<candles, opts, http, home>>

\* the iteration with the early return at confidence >= 0.85
ValidateNextDoubleTopFrom85 ==
    /\ res.outcome = "running" /\ res.fn = "detectDoubleTop"
    /\ res.patternData.validated < Len(DoubleTopCandidates(candles.bars))
    /\ LET step(v) ==
               IF v.detected /\ v.confidence.n >= 85 THEN DoubleTopResult(v)
               ELSE DoubleTopRunning(res.patternData.validated + 1,
                                     IF v.detected
                                     THEN Append(res.patternData.validPatterns, v)
                                     ELSE res.patternData.validPatterns)
       IN  res' = step(DoubleTopCandidates(candles.bars)[res.patternData.validated + 1])
    /\ UNCHANGED <<candles, opts, http, home>>

\* one iteration of the inner loop: the next candidate is validated, pushed
\* when valid, and returned at once when its confidence is above 0.85
ValidateNextDoubleTop ==
    /\ res.outcome = "running" /\ res.fn = "detectDoubleTop"
    /\ res.patternData.validated < Len(DoubleTopCandidates(candles.bars))
    /\ LET step(v) ==
               IF v.detected /\ v.confidence.n > 85 THEN DoubleTopResult(v)
               ELSE DoubleTopRunning(res.patternData.validated + 1,
                                     IF v.detected
                                     THEN Append(res.patternData.validPatterns, v)
                                     ELSE res.patternData.validPatterns)
       IN  res' = step(DoubleTopCandidates(candles.bars)[res.patternData.validated + 1])
    /\ UNCHANGED <<candles, opts, http, home>>

\* the loops are exhausted: the first of the sorted valid patterns, if any
LeaveDoubleTopLoops ==
    /\ res.outcome = "running" /\ res.fn = "detectDoubleTop"
    /\ res.patternData.validated = Len(DoubleTopCandidates(candles.bars))
    /\ res' = selectDoubleTop(res.patternData.validPatterns)
    /\ UNCHANGED <<candles, opts, http, home>>

\* a direct call analyzeFormingPattern(candles): the candles it picks are
\* objects of the caller's array and keep the index it writes on them
CallAnalyzeFormingPattern ==
    /\ res.outcome = "none"
    /\ res' = analyzeFormingPattern(candles)
    /\ candles' = IF candles.isNull THEN candles
                  ELSE [candles EXCEPT !.bars = candlesAfterForming(candles.bars)]
    /\ UNCHANGED <<opts, http, home>>

\* the caller is done with a result and goes on to its next call with the
\* same array of candles
NextCall ==
    /\ res.outcome \notin {"none", "running"}
    /\ res' = NoResult
    /\ opts' = NoOptions
    /\ http' = NoResponse
    /\ UNCHANGED <<candles, home>>

Next ==
    \/ NextCall
    \/ CallAnalyzeFormingPattern
    \/ EnterDoubleTopLoops
    \/ ValidateNextDoubleTop
    \/ LeaveDoubleTopLoops
    \/ ValidateHeadAndShouldersCandidate
    \/ CallFindPeaksAndTroughs
    \/ CallPart003DetectDoubleTop
    \/ AnalyzeDoubleTop
    \/ AnalyzeDoubleBottom
    \/ AnalyzeTripleTop
    \/ AnalyzeTripleBottom
    \/ AnalyzeHeadAndShoulders
    \/ AnalyzeInverseHeadAndShoulders
    \/ CallDetector
    \/ CallDetectTripleBottom
    \/ CallDetectInverseHeadAndShoulders

Spec == Init /\ [][Next]_vars

----------------------------------------------------------------------------
(* Candles with a missing high or low.  findPeaksAndTroughs is the only    *)
(* function applied to them.                                               *)

\* the candle without its property f: undefined, or null
Without(candle, f, kind) ==
    [k \in ((DOMAIN candle) \ {f}) \cup (IF kind = "null" THEN {"nulls"} ELSE {}) |->
        IF k = "nulls" THEN {f} ELSE candle[k]]

\* the bars at which a property is missing: a peak, a trough and a bar on a
\* slope of the series below
MissingAt == {10, 16, 19, 22}

ShapeNamed(name) == CHOOSE k \in DOMAIN Shapes : Shapes[k].name = name

MissingInputs ==
    {[cs EXCEPT !.bars[i + 1] = Without(cs.bars[i + 1], f, kind)] :
        <<cs, i, f, kind>> \in {MakeCandles(ShapeNamed(s), 0, 0, 60) :
                                    s \in {"dtNear", "dtEdge", "tt3"}}
                                  \X MissingAt \X {"high", "low"} \X {"undefined", "null"}}

InitMissing ==
    /\ candles \in MissingInputs
    /\ res = NoResult
    /\ opts = NoOptions
    /\ http = NoResponse
    /\ home = HomeMounted

NextMissing ==
    \/ CallFindPeaksAndTroughs
    \/ NextCall

SpecMissing == InitMissing /\ [][NextMissing]_vars

----------------------------------------------------------------------------
(* The estimators applied directly: the two functions calculateATR, of     *)
(* detectors/doubleTop.js and of detectors/headAndShoulders.js, on series  *)
(* with and without a missing property, and calculateOptimalWindowSize on  *)
(* a shorter and a longer data length.                                     *)

\* detectors/headAndShoulders.js: the average of the true ranges of the
\* bars of the period up to startIndex whose high and low and whose
\* predecessor's close are defined, or 0.01 when there is none
headAndShoulders_calculateATR(c, period, startIndex) ==
    LET start == Min2(startIndex, Len(c) - 1)
        num(i, f) == ToNumber(At(c, i), f)
        counted == {i \in Max2(1, start - period + 1) .. start :
                       num(i, "high") # <<>> /\ num(i, "low") # <<>>
                       /\ num(i - 1, "close") # <<>>}
        tr == [i \in counted |->
                 Max2(num(i, "high")[1] - num(i, "low")[1],
                      Max2(Abs(num(i, "high")[1] - num(i - 1, "close")[1]),
                           Abs(num(i, "low")[1] - num(i - 1, "close")[1])))]
        sum[s \in SUBSET counted] ==
            IF s = {} THEN 0 ELSE LET i == CHOOSE x \in s : TRUE IN tr[i] + sum[s \ {i}]
    IN  IF counted = {} THEN R(1, 100) ELSE R(sum[counted], Cardinality(counted))

\* the lookback period every caller passes
AtrPeriod == 14

\* the largest data length the window size is computed for
MaxDataLength == 210

\* series of 10, 25 and 60 bars, whole, and with the high of bar 1 or the
\* close of bar 15 undefined
EstimatorInputs ==
    LET whole == {MakeCandles(ShapeNamed("dtNear"), 0, 0, n) : n \in {10, 25, 60}}
    IN  whole \cup {[cs EXCEPT !.bars[2] = Without(cs.bars[2], "high", "undefined")] :
                        cs \in whole}
              \cup {[cs EXCEPT !.bars[16] = Without(cs.bars[16], "close", "undefined")] :
                        cs \in {x \in whole : Len(x.bars) >= 16}}

InitEstimators ==
    /\ candles \in EstimatorInputs
    /\ res = NoResult
    /\ opts = NoOptions
    /\ http = NoResponse
    /\ home = HomeMounted

\* calculateATR(candles, 14, endIndex) of detectors/doubleTop.js, endIndex
\* the index of a bar as in validateDoubleTop
CallCalculateATR ==
    /\ res.outcome = "none"
    /\ \E endIndex \in 0 .. (Len(candles.bars) - 1) :
          /\ res' = [NoResult EXCEPT !.fn = "calculateATR", !.outcome = "returned",
                        !.patternData = calculateATR(candles.bars, AtrPeriod, endIndex)]
          /\ opts' = [period |-> AtrPeriod, endIndex |-> endIndex]
    /\ UNCHANGED <<candles, http, home>>

\* calculateATR(candles, 14, startIndex) of detectors/headAndShoulders.js
CallHeadAndShouldersCalculateATR ==
    /\ res.outcome = "none"
    /\ \E startIndex \in 0 .. (Len(candles.bars) - 1) :
          /\ res' = [NoResult EXCEPT !.fn = "headAndShoulders.calculateATR",
                        !.outcome = "returned",
                        !.patternData = headAndShoulders_calculateATR(candles.bars, AtrPeriod,
                                                                      startIndex)]
          /\ opts' = [period |-> AtrPeriod, endIndex |-> startIndex]
    /\ UNCHANGED <<candles, http, home>>

\* calculateOptimalWindowSize applied to a shorter and to a longer data
\* length
CallCalculateOptimalWindowSize ==
    /\ res.outcome = "none"
    /\ \E shorter \in 0 .. MaxDataLength : \E longer \in shorter .. MaxDataLength :
          /\ res' = [NoResult EXCEPT !.fn = "calculateOptimalWindowSize",
                        !.outcome = "returned",
                        !.patternData = [shorter |-> calculateOptimalWindowSize(shorter),
                                         longer |-> calculateOptimalWindowSize(longer)]]
          /\ opts' = [shorter |-> shorter, longer |-> longer]
    /\ UNCHANGED <<candles, http, home>>

NextEstimators ==
    \/ CallCalculateATR
    \/ CallHeadAndShouldersCalculateATR
    \/ CallCalculateOptimalWindowSize
    \/ NextCall

SpecEstimators == InitEstimators /\ [][NextEstimators]_vars

----------------------------------------------------------------------------
(* The Home page (frontend/src/pages/Home.tsx), its Form                   *)
(* (frontend/src/components/Form.tsx) and the request of                   *)
(* frontend/src/services/apiService.ts.                                    *)

\* what the user can type into the ticker field and pick as a date
TickerInputs == {"", "aapl", "MSFT"}

DateInputs == {"", "2025-05-02", "2025-11-02"}

PatternTypes ==
    {"head-and-shoulders", "inverse-head-and-shoulders", "double-top", "triple-bottom"}

toUpperCase(value) == IF value = "aapl" THEN "AAPL" ELSE value

\* !formData.ticker || !formData.fromDate || !formData.toDate
MissingField(formData) ==
    formData.ticker = "" \/ formData.fromDate = "" \/ formData.toDate = ""

\* what axios.get settles with: a response of the handler (2xx with its
\* JSON body), its status 500 with { error: err.message }, or no response
Responses ==
    {[status |-> 200, data |-> [success |-> s]] : s \in BOOLEAN} \cup
    {[status |-> 500, data |-> [error |-> e]] : e \in {"", "Not enough data"}} \cup
    {[status |-> 0, data |-> [error |-> ""]]}

\* apiService.analyzePattern: the body of a 2xx response, or an Error with
\* error.response?.data?.error || 'Analysis failed: Internal server error'
analyzePattern(response) ==
    IF response.status = 200 THEN [resolved |-> TRUE, value |-> <<response.data>>, message |-> ""]
    ELSE [resolved |-> FALSE, value |-> <<>>,
          message |-> IF response.data.error # "" THEN response.data.error
                      ELSE "Analysis failed: Internal server error"]

\* handleAnalyze up to its await
handleAnalyze(h, formData) ==
    IF MissingField(formData) THEN [h EXCEPT !.error = "Please fill in all fields"]
    ELSE [h EXCEPT !.loading = TRUE, !.error = "", !.analysisResult = <<>>,
                   !.request = <<formData>>]

\* Form.handleInputChange
HandleInputChange ==
    /\ \/ \E v \in TickerInputs : home' = [home EXCEPT !.formData.ticker = toUpperCase(v),
                                                         !.lastEvent = "change"]
       \/ \E v \in DateInputs : home' = [home EXCEPT !.formData.fromDate = v,
                                                       !.lastEvent = "change"]
       \/ \E v \in DateInputs : home' = [home EXCEPT !.formData.toDate = v,
                                                       !.lastEvent = "change"]
       \/ \E v \in PatternTypes : home' = [home EXCEPT !.formData.patternType = v,
                                                         !.lastEvent = "change"]
    /\ UNCHANGED <<candles, res, opts, http>>

\* a click on the button, which is disabled while loading: Form.handleSubmit
\* returns on a missing field and calls onAnalyze, handleAnalyze of the
\* page, otherwise
HandleSubmit ==
    /\ ~home.loading
    /\ home' = IF MissingField(home.formData) THEN [home EXCEPT !.lastEvent = "submit"]
               ELSE [handleAnalyze(home, home.formData) EXCEPT !.lastEvent = "submit"]
    /\ UNCHANGED <<candles, res, opts, http>>

\* the request settles: handleAnalyze after its await, with its finally
RequestSettles ==
    /\ home.request # <<>>
    /\ \E response \in Responses :
          LET settled == analyzePattern(response)
          IN  home' = [home EXCEPT !.analysisResult = IF settled.resolved THEN settled.value
                                                      ELSE @,
                                   !.error = IF settled.resolved THEN @ ELSE settled.message,
                                   !.loading = FALSE, !.request = <<>>,
                                   !.lastEvent = "settle"]
    /\ UNCHANGED <<candles, res, opts, http>>

InitHome ==
    /\ candles = NullCandles
    /\ res = NoResult
    /\ opts = NoOptions
    /\ http = NoResponse
    /\ home = HomeMounted

NextHome ==
    \/ HandleInputChange
    \/ HandleSubmit
    \/ RequestSettles

SpecHome == InitHome /\ [][NextHome]_vars

----------------------------------------------------------------------------
(* Properties *)

\* the options a call ran with: the defaults when the caller passed none
CallOptions(defaults) == IF opts = NoOptions THEN defaults ELSE opts

\* a < b for rationals with positive denominators
Less(a, b) == a.n * b.d < b.n * a.d

IsDetected(fn) == res.fn = fn /\ res.outcome = "detected"

\* C1: whenever one of the detectors returns a detected/success result, for
\* any candles and any caller options, patternData.confidence lies in the
\* closed interval [0, 1].
C1_ConfidenceInUnitInterval ==
    res.outcome = "detected" =>
        /\ 0 <= res.patternData.confidence.n
        /\ res.patternData.confidence.n <= res.patternData.confidence.d

\* C2: detectHeadAndShoulders never throws: on at least 60 well-formed
\* candles it returns a success result or { success: false, reason }, also
\* when a peak triple has the troughs that make it call the validator.
C2_HeadAndShouldersNeverThrows ==
    (res.fn = "detectHeadAndShoulders" /\ ~candles.isNull /\ Len(candles.bars) >= 60) =>
        \/ res.outcome = "detected"
        \/ res.outcome = "notDetected" /\ res.hasReason

\* C3: detectTripleBottom and detectInverseHeadAndShoulders, called with
\* null, empty or fewer candles than minRequiredCandles / minDataPoints,
\* return a not-detected result with reason 'Not enough data' and do not
\* throw.
C3_TripleBottomAndInverseShortInput ==
    LET tooShort ==
            \/ candles.isNull
            \/ res.fn = "detectTripleBottom"
               /\ Len(candles.bars) < CallOptions(TripleBottomDefaults).minRequiredCandles
            \/ res.fn = "detectInverseHeadAndShoulders"
               /\ Len(candles.bars) < CallOptions(InverseHeadAndShouldersDefaults).minDataPoints
    IN  (res.fn \in {"detectTripleBottom", "detectInverseHeadAndShoulders"} /\ tooShort) =>
            res.outcome = "notDetected" /\ res.hasReason /\ res.reason = "Not enough data"

\* C4: detectDoubleTop, detectDoubleBottom, detectTripleTop and
\* detectHeadAndShoulders, called with null, empty or fewer than 60, 30,
\* 50 and 60 candles, return a not-detected result that carries a reason
\* string, and do not throw.
C4_ShortInputHasReason ==
    LET tooShort ==
            \/ candles.isNull
            \/ res.fn = "detectDoubleTop" /\ Len(candles.bars) < 60
            \/ res.fn = "detectDoubleBottom" /\ Len(candles.bars) < 30
            \/ res.fn = "detectTripleTop" /\ Len(candles.bars) < 50
            \/ res.fn = "detectHeadAndShoulders" /\ Len(candles.bars) < 60
    IN  (res.fn \in {"detectDoubleTop", "detectDoubleBottom", "detectTripleTop",
                     "detectHeadAndShoulders"} /\ tooShort) =>
            res.outcome = "notDetected" /\ res.hasReason /\ res.reason # ""

\* a call of detectHeadAndShoulders with null candles has returned
C4_Witness ==
    /\ res.fn = "detectHeadAndShoulders"
    /\ candles.isNull
    /\ res.outcome = "notDetected"

\* C5: every not-detected result of a detector carries a reason string.
C5_NotDetectedHasReason ==
    res.outcome = "notDetected" => res.hasReason /\ res.reason # ""

\* C6: every success result of detectInverseHeadAndShoulders with default
\* options and of detectHeadAndShoulders has non-null key points, the
\* necklineBreak included, so the handler builds the three pattern lines
\* from them without an error.
C6_SuccessHasAllKeyPoints ==
    LET keyPoints == res.patternData.keyPoints
        defaultCall ==
            \/ IsDetected("detectHeadAndShoulders")
            \/ IsDetected("detectInverseHeadAndShoulders")
               /\ CallOptions(InverseHeadAndShouldersDefaults) = InverseHeadAndShouldersDefaults
    IN  defaultCall =>
            /\ \A k \in DOMAIN keyPoints : ~keyPoints[k].isNull
            /\ http.status # "none" => http.status = "ok" /\ DOMAIN http.patternLines # {}

\* the candidates that pass validation in the call that produced res, in
\* enumeration order where the detector enumerates a list
ValidCandidates ==
    LET c == candles.bars
        objects(seq) == SelectSeq(seq, LAMBDA v : v.detected)
        asSeq(S) == [x \in 1 .. Cardinality(S) |->
                        CHOOSE t \in S : Cardinality({u \in S : FirstTriple({t, u}) = u}) = x]
        tripleTops(peaks, troughs) ==
            LET ordered(valid) ==
                    [x \in 1 .. Len(valid) |-> TripleTopOutcome(c, peaks, troughs, valid[x])]
            IN  ordered(asSeq(TripleTopValid(c, peaks, troughs)))
        tripleBottoms(options, peaks, troughs) ==
            LET ordered(valid) ==
                    [x \in 1 .. Len(valid) |->
                        TripleBottomOutcome(c, options, peaks, troughs, valid[x])]
            IN  objects(ordered(asSeq(TripleBottomValid(c, options, peaks, troughs))))
    IN  CASE res.fn = "detectDoubleTop" -> objects(DoubleTopCandidates(c))
          [] res.fn = "detectDoubleBottom" -> objects(DoubleBottomCandidates(c))
          [] res.fn = "detectTripleTop" ->
                tripleTops(findPeaksAndTroughs(c, <<>>).peaks,
                           findPeaksAndTroughs(c, <<>>).troughs)
          [] res.fn = "detectTripleBottom" ->
                tripleBottoms(CallOptions(TripleBottomDefaults),
                    SignificantWithRetry(c, CallOptions(TripleBottomDefaults).windowSize,
                                         "peaks", 2),
                    SignificantWithRetry(c, CallOptions(TripleBottomDefaults).windowSize,
                                         "troughs", 3))
          [] res.fn = "detectInverseHeadAndShoulders" ->
                objects(InverseHeadAndShouldersCandidates(
                            c, CallOptions(InverseHeadAndShouldersDefaults)))
          [] OTHER -> <<>>

\* C7: when at least one candidate passes validation, the result is one of
\* maximum confidence among the candidates that pass, and the first of
\* those in enumeration order.
C7_ReturnsFirstOfMaximumConfidence ==
    res.outcome = "detected" =>
        LET valid == ValidCandidates
            best == CHOOSE i \in 1 .. Len(valid) :
                       /\ \A j \in 1 .. Len(valid) : ~Less(valid[i].confidence, valid[j].confidence)
                       /\ \A j \in 1 .. (i - 1) : Less(valid[j].confidence, valid[i].confidence)
        IN  /\ valid # <<>>
            /\ res.patternData.confidence = valid[best].confidence
            /\ res.patternData.keyPoints = valid[best].keyPoints

\* the series of the worked example: 60 bars that rise from 100 to a high
\* of 130 at bar 10, fall to a low of 120 at bar 24, rise to a high of 129
\* at bar 39 and fall, bar 50 closing at 115
C8_Scenario ==
    /\ ~candles.isNull /\ Len(candles.bars) = 60
    /\ LET c == candles.bars
       IN  /\ At(c, 0).low <= 100 /\ 100 <= At(c, 0).high
           /\ At(c, 10).high = 130 /\ At(c, 24).low = 120
           /\ At(c, 39).high = 129 /\ At(c, 50).close = 115
           /\ \A i \in 0 .. 9 : At(c, i).close <= At(c, i + 1).close
           /\ \A i \in 10 .. 23 : At(c, i).close >= At(c, i + 1).close
           /\ \A i \in 24 .. 38 : At(c, i).close <= At(c, i + 1).close
           /\ \A i \in 39 .. 58 : At(c, i).close >= At(c, i + 1).close

\* C8: on that series detectDoubleTop returns detected = true with
\* firstPeakIndex 10, secondPeakIndex 39, necklineLevel 120, a priceTarget
\* of about 110 (within 1) and a confidence of at least 0.6.
C8_WorkedExampleDetected ==
    (C8_Scenario /\ res.fn = "detectDoubleTop") =>
        /\ res.outcome = "detected"
        /\ res.firstPeakIndex = 10 /\ res.secondPeakIndex = 39
        /\ res.patternData.necklineLevel = 120
        /\ ~Less(res.patternData.priceTarget, R(109, 1))
        /\ ~Less(R(111, 1), res.patternData.priceTarget)
        /\ ~Less(res.patternData.confidence, R(60, 100))

\* C9: a validator rejects every candidate whose relative level difference
\* is strictly larger than the effective tolerance (double top: the
\* volatility-adjusted maxPeakDifference; double bottom 6%; triple top 5%;
\* triple bottom bottomPriceTolerance), so no returned pattern exceeds it.
C9_NoResultBeyondTolerance ==
    LET keyPoints == res.patternData.keyPoints
        bottoms == {keyPoints.firstBottom.price, keyPoints.secondBottom.price,
                    keyPoints.thirdBottom.price}
        tops == {keyPoints.firstPeak.price, keyPoints.secondPeak.price,
                 keyPoints.thirdPeak.price}
    IN  /\ IsDetected("detectDoubleTop") =>
              Abs(keyPoints.firstPeak.price - keyPoints.secondPeak.price) * 100000
                  <= res.patternData.metrics.peakSimilarityThreshold * keyPoints.firstPeak.price
        /\ IsDetected("detectDoubleBottom") =>
              Abs(keyPoints.firstBottom.price - keyPoints.secondBottom.price) * 100
                  <= 6 * Min2(keyPoints.firstBottom.price, keyPoints.secondBottom.price)
        /\ IsDetected("detectTripleTop") =>
              \A x \in tops : \A y \in tops : (y - x) * 100 <= 5 * y
        /\ IsDetected("detectTripleBottom") =>
              \A x \in bottoms : \A y \in bottoms :
                  (y - x) * 100000 <= CallOptions(TripleBottomDefaults).bottomPriceTolerance * x

\* C10: for every detected double top the returned valley is the bar with
\* the lowest low among the bars strictly between the two peaks, the
\* earliest such bar on ties, so its index lies strictly between the
\* indices of the peaks.
C10_ValleyIsEarliestLowestBetweenPeaks ==
    IsDetected("detectDoubleTop") =>
        LET c == candles.bars
            valley == res.patternData.keyPoints.valley
            v == findIndex(c, valley.date)
        IN  /\ res.firstPeakIndex < v /\ v < res.secondPeakIndex
            /\ valley.price = At(c, v).low
            /\ \A j \in (res.firstPeakIndex + 1) .. (res.secondPeakIndex - 1) :
                  /\ At(c, v).low <= At(c, j).low
                  /\ At(c, j).low = At(c, v).low => v <= j

\* a double top was detected whose lowest low between the peaks is the low
\* of more than one bar
C10_Witness ==
    /\ IsDetected("detectDoubleTop")
    /\ \E j \in (res.firstPeakIndex + 1) .. (res.secondPeakIndex - 1) :
          /\ At(candles.bars, j).low = res.patternData.keyPoints.valley.price
          /\ At(candles.bars, j).date # res.patternData.keyPoints.valley.date

\* the key point names of a detector's last pattern point and of its
\* breakout point
LastPointKeys(fn) ==
    CASE fn \in {"detectDoubleTop", "part_003.detectDoubleTop"} ->
             <<"secondPeak", "breakoutPoint">>
      [] fn = "detectDoubleBottom" -> <<"secondBottom", "breakoutPoint">>
      [] fn = "detectTripleTop" -> <<"thirdPeak", "breakoutPoint">>
      [] fn = "detectTripleBottom" -> <<"thirdBottom", "breakoutPoint">>
      [] fn \in {"detectHeadAndShoulders", "detectInverseHeadAndShoulders",
                  "analyzeFormingPattern"} ->
             <<"rightShoulder", "necklineBreak">>

\* C11: whenever a detector returns a result with a breakout point
\* (confirmed, partial, forming or the last-candle fallback), the bar index
\* of that point is strictly greater than the index of the last pattern
\* point (second peak/bottom, third peak/bottom or right shoulder).
C11_BreakoutAfterLastPatternPoint ==
    LET after(keyPoints, keys) ==
            ~keyPoints[keys[2]].isNull =>
                findIndex(candles.bars, keyPoints[keys[2]].date)
                    > findIndex(candles.bars, keyPoints[keys[1]].date)
    IN  res.outcome = "detected" =>
            after(res.patternData.keyPoints, LastPointKeys(res.fn))

\* the detectDoubleTop of part_003 has returned a pattern whose breakout
\* point is the last candle, no close having confirmed the breakout
C11_Witness ==
    /\ res.fn = "part_003.detectDoubleTop"
    /\ res.outcome = "detected"
    /\ ~res.patternData.keyPoints.breakoutPoint.isConfirmed
    /\ res.patternData.keyPoints.breakoutPoint.index = Len(candles.bars) - 1

\* C12: for every detected double or triple pattern, patternHeight equals
\* the mean of the same-role extreme prices (the peaks of a top, the bottoms
\* of a bottom) minus necklineLevel for tops and necklineLevel minus that
\* mean for bottoms, and priceTarget equals necklineLevel - patternHeight
\* for tops and necklineLevel + patternHeight for bottoms.
C12_HeightAndTargetFromMeanAndNeckline ==
    LET \* sign = 1 for a top, -1 for a bottom; height and target are rationals
        derived(sign, sum, count, neck, height, target) ==
            /\ height.n * count = sign * (sum - count * neck) * height.d
            /\ target.n * height.d = (neck * height.d - sign * height.n) * target.d
        of(pd, sign, extremes) ==
            derived(sign,
                    SumFn([k \in 1 .. Len(extremes) |-> pd.keyPoints[extremes[k]].price],
                          1, Len(extremes)),
                    Len(extremes), pd.necklineLevel, pd.patternHeight, pd.priceTarget)
    IN  /\ res.outcome = "detected"
           /\ res.fn \in {"detectDoubleTop", "part_003.detectDoubleTop"}
           => of(res.patternData, 1, <<"firstPeak", "secondPeak">>)
        /\ IsDetected("detectDoubleBottom")
           => of(res.patternData, -1, <<"firstBottom", "secondBottom">>)
        /\ IsDetected("detectTripleTop")
           => of(res.patternData, 1, <<"firstPeak", "secondPeak", "thirdPeak">>)
        /\ IsDetected("detectTripleBottom")
           => of(res.patternData, -1, <<"firstBottom", "secondBottom", "thirdBottom">>)

\* detectTripleBottom has returned a pattern whose three bottoms are not all
\* at one price
C12_Witness ==
    /\ IsDetected("detectTripleBottom")
    /\ res.patternData.keyPoints.firstBottom.price
           # res.patternData.keyPoints.thirdBottom.price

\* C13: findPeaksAndTroughs(candles, window) returns as peaks exactly the
\* bars i with window <= i <= length - window - 1 whose high is >= every
\* high in [i - window, i + window], in strictly increasing index order,
\* and as troughs exactly the bars whose low is <= every low in that range,
\* also strictly increasing; no bar within window bars of either end is
\* reported.
C13_PeaksAndTroughsAreWindowExtremes ==
    LET c == candles.bars
        exactly(points, window, extreme(_, _)) ==
            /\ \A k \in 1 .. (Len(points) - 1) : points[k].index < points[k + 1].index
            /\ \A k \in 1 .. Len(points) :
                   /\ window <= points[k].index
                   /\ points[k].index <= Len(c) - window - 1
                   /\ points[k] = Pt(c, points[k].index)
            /\ {points[k].index : k \in 1 .. Len(points)}
                   = {i \in 0 .. (Len(c) - 1) :
                         /\ window <= i /\ i <= Len(c) - window - 1
                         /\ \A j \in (i - window) .. (i + window) : extreme(i, j)}
        both(window) ==
            /\ exactly(res.patternData.peaks, window,
                       LAMBDA i, j : At(c, i).high >= At(c, j).high)
            /\ exactly(res.patternData.troughs, window,
                       LAMBDA i, j : At(c, i).low <= At(c, j).low)
    IN  (res.fn = "findPeaksAndTroughs" /\ res.outcome = "returned" /\ opts.window # <<>>)
            => both(opts.window[1])

\* a call with an explicit window has reported two neighbouring bars of
\* equal low as troughs
C13_Witness ==
    /\ res.fn = "findPeaksAndTroughs" /\ res.outcome = "returned" /\ opts.window # <<>>
    /\ \E k \in 1 .. (Len(res.patternData.troughs) - 1) :
           /\ res.patternData.troughs[k + 1].index = res.patternData.troughs[k].index + 1
           /\ res.patternData.troughs[k + 1].low = res.patternData.troughs[k].low

\* the candles are 60 bars whose highs and lows are strictly increasing
StrictlyIncreasing ==
    /\ ~candles.isNull
    /\ Len(candles.bars) = 60
    /\ \A i \in 0 .. 58 : /\ At(candles.bars, i).high < At(candles.bars, i + 1).high
                           /\ At(candles.bars, i).low < At(candles.bars, i + 1).low

SixDetectors ==
    {"detectDoubleTop", "detectDoubleBottom", "detectTripleTop", "detectTripleBottom",
     "detectHeadAndShoulders", "detectInverseHeadAndShoulders"}

C16_FormingOnlyNearEnd ==
    LET c == candles.bars
        nearEnd(cand) ==
            cand.rightShoulder.index
                > Len(c) - Min2(20, (2 * (cand.rightShoulder.index
                                            - cand.leftShoulder.index) + 5) \div 10)
        noBreakout(cand, span) ==
            \A i \in (cand.rightShoulder.index + 1)
                       .. (Min2(Len(c), cand.rightShoulder.index + 30) - 1) :
                At(c, i).low * 100 * span
                    >= 99 * (cand.leftTrough.low * span
                             + (cand.rightTrough.low - cand.leftTrough.low)
                                   * (i - cand.leftTrough.index))
    IN  res.fn = "validateHeadAndShoulders" =>
            /\ res.outcome = "detected" => nearEnd(opts)
            /\ (~nearEnd(opts)
                   /\ noBreakout(opts, opts.rightTrough.index - opts.leftTrough.index))
               => res.outcome = "rejected"

\* C17: every inverse head-and-shoulders result has a head low strictly
\* below both shoulder lows, and every head-and-shoulders result has a head
\* high strictly above both shoulder highs.
C17_HeadBeyondBothShoulders ==
    LET keyPoints == res.patternData.keyPoints
    IN  /\ IsDetected("detectInverseHeadAndShoulders") =>
               /\ keyPoints.head.price < keyPoints.leftShoulder.price
               /\ keyPoints.head.price < keyPoints.rightShoulder.price
        /\ IsDetected("detectHeadAndShoulders") =>
               /\ keyPoints.head.price > keyPoints.leftShoulder.price
               /\ keyPoints.head.price > keyPoints.rightShoulder.price

\* C18: in detectDoubleTop, as soon as a validated candidate has confidence
\* strictly greater than 0.85 it is returned and no later candidate is
\* validated; a candidate with confidence exactly 0.85 does not trigger the
\* early return.
C18_EarlyReturnAbove85Only ==
    [][LET looping == res.fn = "detectDoubleTop" /\ res.outcome = "running"
           iteration(next) ==
               /\ (next.detected /\ next.confidence.n > 85) => res' = DoubleTopResult(next)
               /\ (next.detected /\ next.confidence.n = 85) =>
                      /\ res'.outcome = "running"
                      /\ res'.patternData.validated = res.patternData.validated + 1
       IN  /\ (looping /\ res' # res
                  /\ res.patternData.validated < Len(DoubleTopCandidates(candles.bars))) =>
                  iteration(DoubleTopCandidates(candles.bars)[res.patternData.validated + 1])
           /\ (res.fn = "detectDoubleTop" /\ res.outcome = "detected") =>
                  res'.outcome # "running"]_vars

\* the loops of detectDoubleTop have validated a candidate of confidence
\* exactly 0.85 and go on
C18_Witness ==
    /\ res.fn = "detectDoubleTop" /\ res.outcome = "running"
    /\ res.patternData.validated >= 1
    /\ LET last == DoubleTopCandidates(candles.bars)[res.patternData.validated]
       IN  last.detected /\ last.confidence.n = 85

\* C19: every double top returned by detectDoubleTop has its two peaks at
\* least minPeakDistance (10) bars apart; candidates whose peaks are closer
\* than that are rejected.
C19_PeaksAtLeastMinPeakDistanceApart ==
    IsDetected("detectDoubleTop") =>
        res.secondPeakIndex - res.firstPeakIndex >= patternDetectionConfig.minPeakDistance

\* C20: no double top comes out of validateDoubleTop with a valley decline
\* from the first peak, (firstPeak.high - valley.low) / firstPeak.high, below
\* the minimum trough depth adjusted for volatility: such a candidate is
\* rejected.
C20_ShallowValleyRejected ==
    IsDetected("detectDoubleTop") =>
        LET c == candles.bars
            config == adjustedConfig(c)
            firstPeak == Pt(c, res.firstPeakIndex)
            secondPeak == Pt(c, res.secondPeakIndex)
            valley == res.patternData.keyPoints.valley
            minTroughDepth ==
                volatilityAdjusted(VolatilityClass(c, firstPeak, secondPeak, config),
                                   config.minTroughDepth,
                                   config.volatilityFactors.troughAdjustment)
        IN  (firstPeak.high - valley.price) * 100000 >= minTroughDepth * firstPeak.high

\* the candles as they were before any call wrote on them
Untouched(cs) ==
    [cs EXCEPT !.bars = [i \in 1 .. Len(cs.bars) |->
                            [k \in (DOMAIN cs.bars[i]) \ {"index"} |-> cs.bars[i][k]]]]

Touched(cs) == \E i \in 1 .. Len(cs.bars) : HasOwnIndex(cs.bars[i])

\* the result of the call fn(cs) with the options of the call that produced
\* res
ResultOfCall(fn, cs) ==
    CASE fn = "detectDoubleTop" -> detectDoubleTop(cs)
      [] fn = "detectDoubleBottom" -> detectDoubleBottom(cs)
      [] fn = "detectTripleTop" -> detectTripleTop(cs)
      [] fn = "detectTripleBottom" -> detectTripleBottom(cs, CallOptions(TripleBottomDefaults))
      [] fn = "detectHeadAndShoulders" -> detectHeadAndShoulders(cs)
      [] fn = "detectInverseHeadAndShoulders" ->
            detectInverseHeadAndShoulders(cs, CallOptions(InverseHeadAndShouldersDefaults))
      [] fn = "part_003.detectDoubleTop" -> Part003_detectDoubleTop(cs, opts)
      [] fn = "analyzeFormingPattern" -> analyzeFormingPattern(cs)
      [] fn = "findPeaksAndTroughs" ->
            [res EXCEPT !.patternData = findPeaksAndTroughs(cs.bars, opts.window)]
      [] OTHER -> res

\* C15: a call returns the same result whatever earlier calls did to the
\* candle objects: on candles that analyzeFormingPattern has written an index
\* on, every detector returns what it returns on the same candles untouched.
C15_EarlierCallsLeaveResultsAlone ==
    (Touched(candles) /\ res.outcome \notin {"none", "running"}) =>
        res = ResultOfCall(res.fn, Untouched(candles))

\* a double top detected on candles whose first peak carries the index
\* written by an earlier analyzeFormingPattern
C15_Witness ==
    /\ IsDetected("detectDoubleTop")
    /\ HasOwnIndex(At(candles.bars, res.firstPeakIndex))

\* C21: in validateDoubleTop, with the peak-similarity, trough, volume and
\* trend sub-scores held equal, a result with a partial breakout never has a
\* higher overall confidence than a result with a confirmed breakout: the
\* confidence of a double top returned with a partial breakout is at most
\* the confidence the same sub-scores give with a confirmed breakout of any
\* volume tier (0.5, 0.8 or 1.0).
C21_PartialBreakoutNeverAboveConfirmed ==
    (IsDetected("detectDoubleTop") /\ res.patternData.keyPoints.breakoutPoint.isPartial) =>
        LET metrics == res.patternData.metrics
        IN  \A confirmedC \in {50, 80, 100} :
                res.patternData.confidence.n
                    <= OverallConfidence(metrics.peakSimilarity, metrics.troughQuality,
                                         metrics.volumeProfile,
                                         trendConfidence(metrics.priorTrend), confirmedC, FALSE)

\* C22: for a detected triple top the necklineLevel equals the maximum of
\* the two intermediate trough lows, and for a detected triple bottom it
\* equals the minimum of the two intermediate peak highs.
C22_NecklineFromIntermediateExtremes ==
    LET keyPoints == res.patternData.keyPoints
    IN  /\ IsDetected("detectTripleTop") =>
               res.patternData.necklineLevel
                   = Max2(keyPoints.firstTrough.price, keyPoints.secondTrough.price)
        /\ IsDetected("detectTripleBottom") =>
               res.patternData.necklineLevel
                   = Min2(keyPoints.firstPeak.price, keyPoints.secondPeak.price)

\* the longest breakout search the specification allows, in bars after the
\* last pattern point
BreakoutWindow == 30

\* C23: every detector's breakout search examines at most 30 bars after the
\* last pattern point: a confirmed breakout of a returned pattern lies no
\* more than 30 bars after the second peak/bottom, third peak/bottom or
\* right shoulder.
C23_ConfirmedBreakoutWithinWindow ==
    LET confirmed(bp) ==
            /\ ~bp.isNull
            /\ "isPartial" \in DOMAIN bp => ~bp.isPartial
            /\ "isConfirmed" \in DOMAIN bp => bp.isConfirmed
        within(keyPoints, keys) ==
            confirmed(keyPoints[keys[2]]) =>
                findIndex(candles.bars, keyPoints[keys[2]].date)
                    - findIndex(candles.bars, keyPoints[keys[1]].date) <= BreakoutWindow
    IN  res.outcome = "detected" =>
            within(res.patternData.keyPoints, LastPointKeys(res.fn))

\* the reasons with which detectTripleBottom and
\* detectInverseHeadAndShoulders report too few turning points
InsufficientPoints ==
    {"Not enough troughs found", "Not enough peaks found", "Not enough troughs or peaks found"}

\* C24: when the initial window yields fewer than 3 troughs or 2 peaks, the
\* extractors of the triple bottom and of the inverse head and shoulders
\* retry with smaller windows, the last attempt using window 2, before
\* insufficient points is reported: a report of insufficient points means
\* that window 2 too yields fewer than 3 troughs or fewer than 2 peaks.
C24_InsufficientOnlyAfterWindowTwo ==
    (res.fn \in {"detectTripleBottom", "detectInverseHeadAndShoulders"}
     /\ res.outcome = "notDetected" /\ res.reason \in InsufficientPoints) =>
        \/ Len(findPeaksAndTroughs(candles.bars, <<2>>).troughs) < 3
        \/ Len(findPeaksAndTroughs(candles.bars, <<2>>).peaks) < 2

\* a candle has its high and its low
Complete(candle) == "high" \in DOMAIN candle /\ "low" \in DOMAIN candle

\* C25: a candle whose high or low is missing (undefined or null) is never
\* reported as a peak or trough by findPeaksAndTroughs, and the extraction
\* completes without throwing.
C25_MissingCandleNeverTurningPoint ==
    (res.fn = "findPeaksAndTroughs" /\ ~candles.isNull) =>
        /\ res.outcome = "returned"
        /\ \A k \in 1 .. Len(res.patternData.peaks) :
               Complete(At(candles.bars, res.patternData.peaks[k].index))
        /\ \A k \in 1 .. Len(res.patternData.troughs) :
               Complete(At(candles.bars, res.patternData.troughs[k].index))

\* the estimator had fewer than 2 usable bars, or too little history before
\* its end index
TooLittleHistory ==
    LET c == candles.bars
        usable == {i \in Max2(0, opts.endIndex - AtrPeriod) .. opts.endIndex :
                      \A f \in {"high", "low", "close"} : ToNumber(At(c, i), f) # <<>>}
    IN  Cardinality(usable) < 2 \/ (res.fn = "calculateATR" /\ opts.endIndex < AtrPeriod)

\* C26: with fewer than 2 usable bars, or with too little history before
\* the end index (for the estimator of the double top an end index below
\* the period of 14 bars), the volatility estimator returns the neutral
\* default 0.01, never 0 and never the outcome of a division by zero.
C26_DegenerateAtrIsNeutralDefault ==
    (res.fn \in {"calculateATR", "headAndShoulders.calculateATR"} /\ TooLittleHistory) =>
        res.patternData = R(1, 100)

\* C27: calculateOptimalWindowSize is non-decreasing in the data length, a
\* longer series never gets a smaller window than a shorter one, and it
\* always returns at least 2.
C27_WindowSizeMonotoneAtLeastTwo ==
    res.fn = "calculateOptimalWindowSize" =>
        /\ res.patternData.shorter <= res.patternData.longer
        /\ res.patternData.shorter >= 2
        /\ res.patternData.longer >= 2

\* C28: in the Home page loading is true from the moment a valid analysis
\* request is sent until it settles; once it has settled, with success or
\* with failure, loading is false and exactly one of analysisResult and
\* error is set; a form with a missing ticker or date sets an error
\* without sending a request or changing loading.
C28_LoadingWhileInFlightThenResultOrError ==
    /\ home.loading <=> home.request # <<>>
    /\ home.lastEvent = "settle" =>
           /\ ~home.loading
           /\ (home.analysisResult # <<>>) # (home.error # "")
    /\ (home.lastEvent = "submit" /\ MissingField(home.formData)) =>
           /\ home.error # ""
           /\ home.request = <<>>
           /\ ~home.loading

\* C29: for every double top detected by detectDoubleTop, on candles with
\* low <= high, necklineLevel (the low of the valley) is no greater than the
\* high of either peak and strictly below the high of the first peak, hence
\* patternHeight > 0 and priceTarget < necklineLevel.
C29_NecklineBelowPeaks ==
    IsDetected("detectDoubleTop") =>
        LET pd == res.patternData
        IN  /\ pd.necklineLevel < pd.keyPoints.firstPeak.price
            /\ pd.necklineLevel <= pd.keyPoints.secondPeak.price
            /\ pd.patternHeight.n > 0
            /\ pd.priceTarget.n < pd.necklineLevel * pd.priceTarget.d

\* a double top whose second peak is the lower one, over a valley below it
C29_Witness ==
    /\ IsDetected("detectDoubleTop")
    /\ res.patternData.keyPoints.secondPeak.price < res.patternData.keyPoints.firstPeak.price
    /\ res.patternData.necklineLevel < res.patternData.keyPoints.secondPeak.price
    /\ \A i \in 1 .. Len(candles.bars) : candles.bars[i].low <= candles.bars[i].high

\* C30: validateTripleBottom called with requireBreakout = false on a
\* candidate that passes the spacing, similarity and neckline checks but has
\* no close above the neckline after the third bottom returns a pattern
\* result without a confirmed breakout instead of throwing: on candles that
\* are an array with a first candle, detectTripleBottom with that option
\* does not throw.
C30_NoBreakoutNotRequiredReturnsPattern ==
    (res.fn = "detectTripleBottom" /\ opts # NoOptions /\ ~candles.isNull
     /\ Len(candles.bars) > 0) =>
        (~opts.requireBreakout => res.outcome # "threw")

====
